---------------------------- MODULE Spec2Model ----------------------------
(***************************************************************************)
(* A model of the wiring-harness domain model (src/models/harness_models.py)*)
(* and of its loader (src/services/data_loader.py).                         *)
(*                                                                          *)
(* Python dicts keep insertion order and the code iterates over them, so a  *)
(* mapping id -> entity is modelled as a sequence of records with distinct  *)
(* "id" fields, in insertion order.                                         *)
(*                                                                          *)
(* Python floats are IEEE-754 binary64.  A non-negative float v that is 0   *)
(* or at least 1 is modelled as the record [f |-> N], N the natural number  *)
(* v * 2^52 written in limbs (see below); every such v is a multiple of     *)
(* 2^-52, and it is a binary64 value iff N has at most 53 significant bits. *)
(* Float operations compute the exact result and round it to 53 significant *)
(* bits, ties to even, as the hardware does.                                *)
(***************************************************************************)
EXTENDS Integers, Sequences, FiniteSets, TLC

(***************************************************************************)
(* Natural numbers of any size: little-endian sequences of limbs in base    *)
(* 2^15, without leading zero limbs (zero is the empty sequence).  TLC's    *)
(* integers are 32 bits wide, a binary64 significand is 53.                 *)
(***************************************************************************)
\* a product of two limbs plus a carry must fit TLC's 31-bit naturals
LimbBits == 31 \div 2

LimbBase == 2^LimbBits

RECURSIVE BNorm(_)
BNorm(a) ==
    IF a = << >> THEN << >>
    ELSE IF a[Len(a)] = 0 THEN BNorm(SubSeq(a, 1, Len(a) - 1))
    ELSE a

RECURSIVE BFromNat(_)
BFromNat(n) ==
    IF n = 0 THEN << >>
    ELSE <<n % LimbBase>> \o BFromNat(n \div LimbBase)

RECURSIVE BAddC(_, _, _)
BAddC(a, b, c) ==
    IF a = << >> /\ b = << >> THEN (IF c = 0 THEN << >> ELSE <<c>>)
    ELSE LET x == IF a = << >> THEN 0 ELSE Head(a)
             y == IF b = << >> THEN 0 ELSE Head(b)
             s == x + y + c
         IN  <<s % LimbBase>> \o
             BAddC(IF a = << >> THEN << >> ELSE Tail(a),
                   IF b = << >> THEN << >> ELSE Tail(b),
                   s \div LimbBase)

BAdd(a, b) == BAddC(a, b, 0)

\* -1, 0 or 1 as a < b, a = b, a > b, for limb sequences of the same length
RECURSIVE BCmpSame(_, _, _)
BCmpSame(a, b, i) ==
    IF i = 0 THEN 0
    ELSE IF a[i] < b[i] THEN -1
    ELSE IF a[i] > b[i] THEN 1
    ELSE BCmpSame(a, b, i - 1)

BCmp(a, b) ==
    IF Len(a) < Len(b) THEN -1
    ELSE IF Len(a) > Len(b) THEN 1
    ELSE BCmpSame(a, b, Len(a))

RECURSIVE BMulSmallC(_, _, _)
BMulSmallC(a, d, c) ==
    IF a = << >> THEN (IF c = 0 THEN << >> ELSE <<c>>)
    ELSE LET p == Head(a) * d + c
         IN  <<p % LimbBase>> \o BMulSmallC(Tail(a), d, p \div LimbBase)

\* a * d for a limb d < 2^15
BMulSmall(a, d) == IF d = 0 THEN << >> ELSE BMulSmallC(a, d, 0)

RECURSIVE BMul(_, _)
BMul(a, b) ==
    IF a = << >> \/ b = << >> THEN << >>
    ELSE LET rest == BMul(Tail(a), b)
         IN  BAdd(BMulSmall(b, Head(a)),
                  IF rest = << >> THEN << >> ELSE <<0>> \o rest)

\* floor(a / d) for 0 < d < 2^15, from the top limb down
RECURSIVE BDivSmallR(_, _, _)
BDivSmallR(a, d, i) ==
    \* <<quotient limbs 1..i, remainder>> of the number made of limbs i..Len(a)
    IF i > Len(a) THEN <<<< >>, 0>>
    ELSE LET up  == BDivSmallR(a, d, i + 1)
             cur == up[2] * LimbBase + a[i]
         IN  <<<<cur \div d>> \o up[1], cur % d>>

BDivSmall(a, d) == BNorm(BDivSmallR(a, d, 1)[1])

BModSmall(a, d) == BDivSmallR(a, d, 1)[2]

\* a * 2^k
BShl(a, k) ==
    IF a = << >> THEN << >>
    ELSE [i \in 1..(k \div LimbBits) |-> 0] \o BMulSmall(a, 2^(k % LimbBits))

\* floor(a / 2^k)
BShr(a, k) ==
    LET q == k \div LimbBits
        r == k % LimbBits
        t == IF q >= Len(a) THEN << >> ELSE SubSeq(a, q + 1, Len(a))
    IN  BNorm([i \in 1..Len(t) |->
                 (t[i] \div 2^r) +
                 (IF i < Len(t) THEN (t[i + 1] % 2^r) * 2^(LimbBits - r) ELSE 0)])

\* bit i of a (bit 0 is the lowest)
BBit(a, i) ==
    IF (i \div LimbBits) + 1 > Len(a) THEN 0
    ELSE (a[(i \div LimbBits) + 1] \div 2^(i % LimbBits)) % 2

\* a has no bit set below bit k
BLowZero(a, k) ==
    /\ \A i \in 1..Len(a) : i <= (k \div LimbBits) => a[i] = 0
    /\ (k \div LimbBits) + 1 <= Len(a) =>
           a[(k \div LimbBits) + 1] % 2^(k % LimbBits) = 0

RECURSIVE NatBitLen(_)
NatBitLen(n) == IF n = 0 THEN 0 ELSE 1 + NatBitLen(n \div 2)

\* the number of significant bits of a
BitLen(a) ==
    IF a = << >> THEN 0
    ELSE (Len(a) - 1) * LimbBits + NatBitLen(a[Len(a)])

BOne == <<1>>

(***************************************************************************)
(* binary64 arithmetic, round to nearest, ties to even                     *)
(***************************************************************************)
\* significand width of a Python float
Precision == 53

\* scale of the fixed-point image: the float v is the natural v * 2^FracBits
FracBits == Precision - 1

\* a, a natural in any unit, rounded to Precision significant bits
RoundSig(a) ==
    LET k == BitLen(a) - Precision
    IN  IF k <= 0 THEN a
        ELSE LET q     == BShr(a, k)
                 guard == BBit(a, k - 1) = 1
                 exact == BLowZero(a, k - 1)
                 up    == guard /\ (~exact \/ BBit(q, 0) = 1)
             IN  BShl(IF up THEN BAdd(q, BOne) ELSE q, k)

FZero == [f |-> << >>]

\* float(n) for a small natural n
FFromInt(n) == [f |-> BShl(BFromNat(n), FracBits)]

\* x + y
FAdd(x, y) == [f |-> RoundSig(BAdd(x.f, y.f))]

\* x * y, for x and y each 0 or at least 1
FMul(x, y) == [f |-> BShr(RoundSig(BMul(x.f, y.f)), FracBits)]

FLess(x, y) == BCmp(x.f, y.f) < 0

\* the float nearest to the rational p / d, for naturals p >= d > 0, d < 2^15:
\* how Python reads a decimal literal such as 1.1 (p = 11, d = 10)
RECURSIVE Log2Ratio(_, _)
Log2Ratio(p, d) == IF p < 2 * d THEN 0 ELSE 1 + Log2Ratio(p, 2 * d)

FFromRatio(p, d) ==
    LET t   == Log2Ratio(p, d)
        num == BShl(BFromNat(p), FracBits - t)
        q   == BDivSmall(num, d)
        r   == BModSmall(num, d)
        up  == 2 * r > d \/ (2 * r = d /\ BBit(q, 0) = 1)
    IN  [f |-> BShl(IF up THEN BAdd(q, BOne) ELSE q, t)]

\* floor(sqrt(x)) for a natural x below 2^(2 * bits), one result bit at a time
RECURSIVE BSqrtBits(_, _, _)
BSqrtBits(x, r, bit) ==
    IF bit < 0 THEN r
    ELSE LET c == BAdd(r, BShl(BOne, bit))
         IN  IF BCmp(BMul(c, c), x) <= 0
             THEN BSqrtBits(x, c, bit - 1)
             ELSE BSqrtBits(x, r, bit - 1)

RECURSIVE Log4(_)
Log4(n) == IF n < 4 THEN 0 ELSE 1 + Log4(n \div 4)

\* math.sqrt(float(n)) for a natural n: the square root, correctly rounded
FSqrtCompute(n) ==
    IF n = 0 THEN FZero
    ELSE LET t  == Log4(n)
             x  == BShl(BFromNat(n), 2 * (FracBits - t))
             q  == BSqrtBits(x, << >>, Precision - 1)
             up == BCmp(x, BAdd(BMul(q, q), q)) > 0
         IN  [f |-> BShl(IF up THEN BAdd(q, BOne) ELSE q, t)]

(***************************************************************************)
(* The state: one WiringHarness (harness_models.py:224-235), the last       *)
(* operation called on it with its argument and outcome, the database rows  *)
(* the loader reads, and the diagram editor (editor.py).                    *)
(***************************************************************************)
VARIABLES
    connectors,   \* WiringHarness.connectors : id -> Connector
    wires,        \* WiringHarness.wires : id -> Wire
    branches,     \* WiringHarness.branches : id -> HarnessBranch
    protections,  \* WiringHarness.protections : id -> BranchProtection
    nodes,        \* WiringHarness.nodes : id -> Node
    fasteners,    \* WiringHarness.fasteners : id -> Fastener
    op,           \* the last operation called
    arg,          \* its argument
    result,       \* what it returned, or the exception it raised
    db,           \* the rows of the database (data_loader.py)
    editor        \* the DiagramEditor window, its scene and its items

harnessVars == <<connectors, wires, branches, protections, nodes, fasteners>>

vars == <<connectors, wires, branches, protections, nodes, fasteners,
          op, arg, result, db, editor>>

\* Python's None
None == "None"

\* an Optional[float] that is None
NoFloat == [none |-> TRUE]

\* the outcome of an operation: the value it returned or the exception raised
Returned(v) == [ret |-> v]

Raised(e) == [raised |-> e]

NoResult == [none |-> TRUE]

(***************************************************************************)
(* dicts in insertion order                                                *)
(***************************************************************************)
Keys(d) == {d[i].id : i \in 1..Len(d)}

KeySeq(d) == [i \in 1..Len(d) |-> d[i].id]

Values(d) == {d[i] : i \in 1..Len(d)}

\* d[k], for a key k of d
Get(d, k) == d[CHOOSE i \in 1..Len(d) : d[i].id = k]

\* d[e.id] = e : a new key is appended, an old key keeps its place and takes
\* the new value
DictSet(d, e) ==
    IF e.id \in Keys(d)
    THEN [i \in 1..Len(d) |-> IF d[i].id = e.id THEN e ELSE d[i]]
    ELSE Append(d, e)

\* no editor window
NoEditor == [none |-> TRUE]

\* a database with no rows
EmptyDb ==
    [harnesses |-> {}, connectors |-> << >>, pins |-> << >>, nodes |-> << >>,
     wires |-> << >>, branches |-> << >>, protections |-> << >>,
     branch_paths |-> << >>]

(***************************************************************************)
(* Geometry.  Path points and positions are pairs of floats; the model      *)
(* draws them from points with small natural coordinates, for which the     *)
(* code's dx = c[0] - p[0], dx * dx and dx * dx + dy * dy are exact in      *)
(* binary64 and are computed here as integers.                              *)
(***************************************************************************)
Points == {<<0, 0>>, <<0, 1>>, <<1, 0>>, <<3, 0>>, <<3, 4>>, <<100, 0>>}

\* dx * dx + dy * dy
SqDist(p, q) ==
    (q[1] - p[1]) * (q[1] - p[1]) + (q[2] - p[2]) * (q[2] - p[2])

\* math.sqrt on the arguments that occur, computed once
SqrtTable == [n \in {SqDist(p, q) : p, q \in Points} |-> FSqrtCompute(n)]

FSqrt(n) == SqrtTable[n]

\* the loop of calculate_length from the i-th point on
RECURSIVE LengthLoop(_, _, _, _)
LengthLoop(path_points, i, prev_point, total_length) ==
    IF i > Len(path_points) THEN total_length
    ELSE LET current_point == path_points[i]
         IN  LengthLoop(path_points, i + 1, current_point,
                 FAdd(total_length, FSqrt(SqDist(prev_point, current_point))))

\* the same loop with prev_point never advanced
RECURSIVE LengthLoopStuck(_, _, _, _)
LengthLoopStuck(path_points, i, prev_point, total_length) ==
    IF i > Len(path_points) THEN total_length
    ELSE LET current_point == path_points[i]
         IN  LengthLoopStuck(path_points, i + 1, prev_point,
                 FAdd(total_length, FSqrt(SqDist(prev_point, current_point))))

calculate_length_Stuck(branch) ==
    IF Len(branch.path_points) < 2 THEN FZero
    ELSE LengthLoopStuck(branch.path_points, 2, branch.path_points[1], FZero)

\* the same loop with the last point left out
calculate_length_Short(branch) ==
    IF Len(branch.path_points) < 2 THEN FZero
    ELSE LengthLoop(SubSeq(branch.path_points, 1, Len(branch.path_points) - 1),
                    2, branch.path_points[1], FZero)

\* HarnessBranch.calculate_length
calculate_length(branch) ==
    IF Len(branch.path_points) < 2 THEN FZero
    ELSE LengthLoop(branch.path_points, 2, branch.path_points[1], FZero)

\* float('inf')
Inf == [inf |-> TRUE]

\* the first loop of find_distance_to_node from the index i on (indices from
\* 0, as in the code): the closest_point_index it ends with
RECURSIVE ClosestLoop(_, _, _, _, _)
ClosestLoop(path_points, position, i, min_distance, closest_point_index) ==
    IF i >= Len(path_points) THEN closest_point_index
    ELSE LET distance == FSqrt(SqDist(position, path_points[i + 1]))
         IN  IF min_distance = Inf \/ FLess(distance, min_distance)
             THEN ClosestLoop(path_points, position, i + 1, distance, i)
             ELSE ClosestLoop(path_points, position, i + 1, min_distance,
                              closest_point_index)

\* the same loop with <= for <: among equally near points the last one wins
RECURSIVE ClosestLoopLatest(_, _, _, _, _)
ClosestLoopLatest(path_points, position, i, min_distance, closest_point_index) ==
    IF i >= Len(path_points) THEN closest_point_index
    ELSE LET distance == FSqrt(SqDist(position, path_points[i + 1]))
         IN  IF min_distance = Inf \/ ~FLess(min_distance, distance)
             THEN ClosestLoopLatest(path_points, position, i + 1, distance, i)
             ELSE ClosestLoopLatest(path_points, position, i + 1, min_distance,
                                    closest_point_index)

\* the second loop of find_distance_to_node: for i in range(n)
RECURSIVE PrefixLoop(_, _, _, _)
PrefixLoop(path_points, i, n, length_to_node) ==
    IF i >= n THEN length_to_node
    ELSE PrefixLoop(path_points, i + 1, n,
             FAdd(length_to_node,
                  FSqrt(SqDist(path_points[i + 1], path_points[i + 2]))))

find_distance_to_node_Latest(branch, node_id, nodes_dict) ==
    IF node_id \notin Keys(nodes_dict) THEN NoFloat
    ELSE LET node == Get(nodes_dict, node_id)
             closest_point_index ==
                 ClosestLoopLatest(branch.path_points, node.position, 0, Inf, 0)
         IN  IF closest_point_index = 0 THEN FZero
             ELSE PrefixLoop(branch.path_points, 0, closest_point_index, FZero)

\* HarnessBranch.find_distance_to_node
find_distance_to_node(branch, node_id, nodes_dict) ==
    IF node_id \notin Keys(nodes_dict) THEN NoFloat
    ELSE LET node == Get(nodes_dict, node_id)
             closest_point_index ==
                 ClosestLoop(branch.path_points, node.position, 0, Inf, 0)
         IN  IF closest_point_index = 0 THEN FZero
             ELSE PrefixLoop(branch.path_points, 0, closest_point_index, FZero)

(***************************************************************************)
(* Enumerations.  A member is [cls |-> class, name |-> member]; a plain     *)
(* Python str in a field declared as an enumeration (the loader passes the  *)
(* database's strings through) is [cls |-> "str", name |-> s].              *)
(***************************************************************************)
Enum(cls, name) == [cls |-> cls, name |-> name]

Str(s) == [cls |-> "str", name |-> s]

\* member.value (the superscript 2 of the wire types is written ^2)
EnumValue(e) ==
    CASE e = Enum("Gender", "MALE") -> "Male"
      [] e = Enum("Gender", "FEMALE") -> "Female"
      [] e = Enum("SealType", "UNSEALED") -> "Unsealed"
      [] e = Enum("SealType", "FULLY_SEALED") -> "Fully Sealed"
      [] e = Enum("ConnectorType", "DTM") -> "Deutsch DTM"
      [] e = Enum("ConnectorType", "OTHER") -> "Other"
      [] e = Enum("WireType", "FLRY_B_0_35") -> "FLRY-B 0.35 mm^2"
      [] e = Enum("WireType", "FLRY_B_0_5") -> "FLRY-B 0.5 mm^2"
      [] e = Enum("ProtectionType", "TAPE") -> "Friction Tape"
      [] e = Enum("ProtectionType", "SPIRAL_WRAP") -> "Spiral Wrap"
      [] e = Enum("NodeType", "CONNECTOR") -> "CONNECTOR"
      [] e = Enum("NodeType", "SPLICE") -> "SPLICE"
      [] e = Enum("NodeType", "BREAKOUT") -> "BREAKOUT"

\* x.value is an AttributeError on a str
HasValue(e) == e.cls # "str"

(***************************************************************************)
(* Entities (the dataclasses of harness_models.py, with the fields the      *)
(* operations read)                                                         *)
(***************************************************************************)
Pin(number, gender, seal, wire_id) ==
    [id |-> number, gender |-> gender, seal |-> seal, wire_id |-> wire_id]

Connector(id, type, part_number, pins) ==
    [id |-> id, type |-> type, part_number |-> part_number, pins |-> pins]

BranchProtection(id, type, part_number) ==
    [id |-> id, type |-> type, part_number |-> part_number, diameter |-> None]

Node(id, name, type, connector_id, position) ==
    [id |-> id, name |-> name, type |-> type, connector_id |-> connector_id,
     position |-> position]

Wire(id, type, color, from_node_id, to_node_id, from_pin, to_pin, length) ==
    [id |-> id, type |-> type, color |-> color,
     from_node_id |-> from_node_id, to_node_id |-> to_node_id,
     from_pin |-> from_pin, to_pin |-> to_pin,
     calculated_length_mm |-> length]

HarnessBranch(id, protection_id, path_points, members) ==
    [id |-> id, protection_id |-> protection_id,
     path_points |-> path_points, nodes |-> members]

FastenerType(id, name) == [id |-> id, name |-> name]

Fastener(id, type, part_number, quantity, size, torque_nm, branch_id, node_id) ==
    [id |-> id, type |-> type, part_number |-> part_number,
     quantity |-> quantity, size |-> size, torque_nm |-> torque_nm,
     branch_id |-> branch_id, node_id |-> node_id]

\* x in a Python list
InList(x, list) == \E i \in 1..Len(list) : list[i] = x

(***************************************************************************)
(* The wire-length engine                                                  *)
(***************************************************************************)
\* the membership test with "and" for "or": one endpoint on the branch is enough
calculate_wire_length_Either(branch, wire) ==
    IF ~InList(wire.from_node_id, branch.nodes)
       /\ ~InList(wire.to_node_id, branch.nodes)
    THEN NoFloat
    ELSE calculate_length(branch)

\* HarnessBranch.calculate_wire_length (nodes_dict is not read)
calculate_wire_length(branch, wire) ==
    IF ~InList(wire.from_node_id, branch.nodes)
       \/ ~InList(wire.to_node_id, branch.nodes)
    THEN NoFloat
    ELSE calculate_length(branch)

\* the literal 1.1
ServiceLoopFactor == FFromRatio(11, 10)

\* the inner loop of calculate_branch_wire_lengths over branches i..
RECURSIVE BranchSum(_, _, _, _)
BranchSum(bs, wire, i, total_length) ==
    IF i > Len(bs) THEN total_length
    ELSE LET branch_length == calculate_wire_length(bs[i], wire)
         IN  IF branch_length # NoFloat
             THEN BranchSum(bs, wire, i + 1, FAdd(total_length, branch_length))
             ELSE BranchSum(bs, wire, i + 1, total_length)

\* the value calculate_branch_wire_lengths stores for one wire, with the sum
\* started from the cached value instead of 0.0
WireTotal_Accumulate(bs, wire) ==
    FMul(BranchSum(bs, wire, 1,
                   IF wire.calculated_length_mm = NoFloat THEN FZero
                   ELSE wire.calculated_length_mm),
         ServiceLoopFactor)

\* the value calculate_branch_wire_lengths stores for one wire
WireTotal(bs, wire) == FMul(BranchSum(bs, wire, 1, FZero), ServiceLoopFactor)

\* the wires that lie in no branch dropped from self.wires
WiresWithLengths_Drop(ws, bs) ==
    SelectSeq([i \in 1..Len(ws) |->
                  [ws[i] EXCEPT !.calculated_length_mm = WireTotal(bs, ws[i])]],
              LAMBDA w : w.calculated_length_mm # FZero)

\* self.wires after calculate_branch_wire_lengths
WiresWithLengths(ws, bs) ==
    [i \in 1..Len(ws) |->
        [ws[i] EXCEPT !.calculated_length_mm = WireTotal(bs, ws[i])]]

\* the dict calculate_branch_wire_lengths returns
WireLengths(ws, bs) ==
    [i \in 1..Len(ws) |-> [id |-> ws[i].id, value |-> WireTotal(bs, ws[i])]]

(***************************************************************************)
(* Queries                                                                 *)
(***************************************************************************)
\* an unknown id answered with the pins of the first connector
get_connector_pins_First(cs, connector_id) ==
    IF connector_id \in Keys(cs) THEN Get(cs, connector_id).pins
    ELSE IF cs # << >> THEN cs[1].pins ELSE << >>

\* WiringHarness.get_connector_pins
get_connector_pins(cs, connector_id) ==
    IF connector_id \in Keys(cs) THEN Get(cs, connector_id).pins ELSE << >>

\* is the node the id names in ns, and on the connector?
OnConnector(ns, node_id, connector_id) ==
    node_id \in Keys(ns) /\ Get(ns, node_id).connector_id = connector_id

\* only the from-node looked at
get_wires_for_connector_FromOnly(ws, ns, connector_id) ==
    SelectSeq(ws, LAMBDA wire : OnConnector(ns, wire.from_node_id, connector_id))

\* WiringHarness.get_wires_for_connector
get_wires_for_connector(ws, ns, connector_id) ==
    SelectSeq(ws, LAMBDA wire :
                     \/ OnConnector(ns, wire.from_node_id, connector_id)
                     \/ OnConnector(ns, wire.to_node_id, connector_id))

(***************************************************************************)
(* Reports                                                                 *)
(***************************************************************************)
\* wire.calculated_length_mm or 0
LengthOrZero(w) ==
    IF w.calculated_length_mm = NoFloat THEN FZero ELSE w.calculated_length_mm

\* f"{wire.type.value}_{wire.color}"
WireTypeKey(w) == EnumValue(w.type) \o "_" \o w.color

\* the loop of generate_bom over the wires i.. : <<wire_types, total>>
RECURSIVE BomWires(_, _, _, _)
BomWires(ws, i, wire_types, total) ==
    IF i > Len(ws) THEN <<wire_types, total>>
    ELSE LET w     == ws[i]
             key   == WireTypeKey(w)
             start == IF key \in Keys(wire_types) THEN wire_types
                      ELSE Append(wire_types,
                               [id |-> key, type |-> EnumValue(w.type),
                                color |-> w.color, length_mm |-> FZero,
                                count |-> 0])
             old   == Get(start, key)
             new   == [old EXCEPT !.length_mm = FAdd(@, LengthOrZero(w)),
                                  !.count = @ + 1]
         IN  BomWires(ws, i + 1, DictSet(start, new),
                      FAdd(total, LengthOrZero(w)))

\* the bom['connectors'] generate_bom builds
BomConnectors(cs) ==
    [i \in 1..Len(cs) |->
        [id |-> cs[i].id, type |-> EnumValue(cs[i].type),
         part_number |-> cs[i].part_number, quantity |-> 1]]

\* WiringHarness.generate_bom.  Line 362 reads protection.diameter_mm, which
\* BranchProtection (field "diameter") does not have: with any protection in
\* the harness the first pass of that loop raises AttributeError, and with
\* none the loop over the branches finds no protection to add a length to.
generate_bom(cs, ws, bs, ps) ==
    IF ps # << >> THEN Raised("AttributeError")
    ELSE LET wt == BomWires(ws, 1, << >>, FZero)
         IN  Returned([connectors |-> BomConnectors(cs),
                       wires |-> wt[1],
                       protections |-> << >>,
                       total_wire_length |-> wt[2]])

\* _get_connection_point deciding by the node's type, not by its connector_id
get_connection_point_ByType(ns, wire, current_connector_id) ==
    LET from_set == wire.from_node_id \in Keys(ns)
        to_set   == wire.to_node_id \in Keys(ns)
        from_node == Get(ns, wire.from_node_id)
        to_node   == Get(ns, wire.to_node_id)
    IN  IF from_set /\ from_node.connector_id = current_connector_id
        THEN IF to_set
             THEN IF to_node.type = Enum("NodeType", "CONNECTOR")
                  THEN <<"Connector", to_node.connector_id, "Pin", wire.to_pin>>
                  ELSE <<EnumValue(to_node.type), to_node.name>>
             ELSE <<"Unknown">>
        ELSE IF to_set /\ to_node.connector_id = current_connector_id
        THEN IF from_set
             THEN IF from_node.type = Enum("NodeType", "CONNECTOR")
                  THEN <<"Connector", from_node.connector_id, "Pin", wire.from_pin>>
                  ELSE <<EnumValue(from_node.type), from_node.name>>
             ELSE <<"Unknown">>
        ELSE <<"Unknown">>

\* WiringHarness._get_connection_point; a formatted string is modelled by the
\* tuple of its parts
get_connection_point(ns, wire, current_connector_id) ==
    LET from_set == wire.from_node_id \in Keys(ns)
        to_set   == wire.to_node_id \in Keys(ns)
        from_node == Get(ns, wire.from_node_id)
        to_node   == Get(ns, wire.to_node_id)
    IN  IF from_set /\ from_node.connector_id = current_connector_id
        THEN IF to_set
             THEN IF to_node.connector_id # None
                  THEN <<"Connector", to_node.connector_id, "Pin", wire.to_pin>>
                  ELSE <<EnumValue(to_node.type), to_node.name>>
             ELSE <<"Unknown">>
        ELSE IF to_set /\ to_node.connector_id = current_connector_id
        THEN IF from_set
             THEN IF from_node.connector_id # None
                  THEN <<"Connector", from_node.connector_id, "Pin", wire.from_pin>>
                  ELSE <<EnumValue(from_node.type), from_node.name>>
             ELSE <<"Unknown">>
        ELSE <<"Unknown">>

\* does _get_connection_point read .value of a str (AttributeError)?
ConnectionPointRaises(ns, wire, current_connector_id) ==
    LET from_set == wire.from_node_id \in Keys(ns)
        to_set   == wire.to_node_id \in Keys(ns)
        from_node == Get(ns, wire.from_node_id)
        to_node   == Get(ns, wire.to_node_id)
    IN  IF from_set /\ from_node.connector_id = current_connector_id
        THEN to_set /\ to_node.connector_id = None /\ ~HasValue(to_node.type)
        ELSE IF to_set /\ to_node.connector_id = current_connector_id
        THEN from_set /\ from_node.connector_id = None
             /\ ~HasValue(from_node.type)
        ELSE FALSE

\* the wire a pin's report row describes: self.wires.get(pin.wire_id) when
\* pin.wire_id is set
PinHasWire(ws, pin) == pin.wire_id # None /\ pin.wire_id \in Keys(ws)

\* one row of the pinout report
PinoutRow(ws, ns, connector_id, pin) ==
    LET has  == PinHasWire(ws, pin)
        wire == Get(ws, pin.wire_id)
    IN  [pin_number |-> pin.id,
         gender |-> EnumValue(pin.gender),
         seal |-> EnumValue(pin.seal),
         wire_id |-> pin.wire_id,
         wire_type |-> IF has THEN EnumValue(wire.type) ELSE "N/A",
         wire_color |-> IF has THEN wire.color ELSE "N/A",
         connected_to |-> IF has
                          THEN get_connection_point(ns, wire, connector_id)
                          ELSE <<"N/A">>]

PinoutRowRaises(ws, ns, connector_id, pin) ==
    \/ ~HasValue(pin.gender)
    \/ ~HasValue(pin.seal)
    \/ /\ PinHasWire(ws, pin)
       /\ \/ ~HasValue(Get(ws, pin.wire_id).type)
          \/ ConnectionPointRaises(ns, Get(ws, pin.wire_id), connector_id)

\* the report with the pins that have no wire left out
generate_pinout_report_Omit(cs, ws, ns, connector_id) ==
    IF connector_id \notin Keys(cs) THEN Returned(<< >>)
    ELSE LET pins == SelectSeq(Get(cs, connector_id).pins,
                               LAMBDA pin : PinHasWire(ws, pin))
         IN  IF \E i \in 1..Len(pins) :
                    PinoutRowRaises(ws, ns, connector_id, pins[i])
             THEN Raised("AttributeError")
             ELSE Returned([i \in 1..Len(pins) |->
                               PinoutRow(ws, ns, connector_id, pins[i])])

\* WiringHarness.generate_pinout_report
generate_pinout_report(cs, ws, ns, connector_id) ==
    IF connector_id \notin Keys(cs) THEN Returned(<< >>)
    ELSE LET pins == Get(cs, connector_id).pins
         IN  IF \E i \in 1..Len(pins) :
                    PinoutRowRaises(ws, ns, connector_id, pins[i])
             THEN Raised("AttributeError")
             ELSE Returned([i \in 1..Len(pins) |->
                               PinoutRow(ws, ns, connector_id, pins[i])])

\* f"{fastener.part_number}_{fastener.size or ''}"
FastenerKey(fa) ==
    fa.part_number \o "_" \o (IF fa.size = None THEN "" ELSE fa.size)

\* the loop of generate_fastener_bom over the fasteners i..
RECURSIVE FastenerBom(_, _, _)
FastenerBom(fs, i, bom) ==
    IF i > Len(fs) THEN bom
    ELSE LET fa    == fs[i]
             key   == FastenerKey(fa)
             start == IF key \in Keys(bom) THEN bom
                      ELSE Append(bom,
                               [id |-> key, part_number |-> fa.part_number,
                                type |-> fa.type.name, size |-> fa.size,
                                quantity |-> 0, torque |-> fa.torque_nm,
                                locations |-> << >>])
             old   == Get(start, key)
             loc   == IF fa.branch_id # None /\ fa.branch_id # ""
                      THEN <<<<"Branch", fa.branch_id>>>>
                      ELSE IF fa.node_id # None /\ fa.node_id # ""
                      THEN <<<<"Node", fa.node_id>>>>
                      ELSE << >>
             new   == [old EXCEPT !.quantity = @ + fa.quantity,
                                  !.locations = @ \o loc]
         IN  FastenerBom(fs, i + 1, DictSet(start, new))

\* WiringHarness.generate_fastener_bom
generate_fastener_bom(fs) == Returned(FastenerBom(fs, 1, << >>))

(***************************************************************************)
(* Spec: a harness built up entity by entity.  WiringHarness declares its   *)
(* seven mappings as public dict fields (lines 229-235) and no method that  *)
(* adds an entity: the add-operation the code gives is the item assignment  *)
(* harness.wires[wire.id] = wire on the mapping, which inserts a new key,   *)
(* replaces the value of an old one, checks nothing and raises nothing.     *)
(* The harness starts empty, as the one built at lines 407-415, and holds   *)
(* MaxHarnessSize entities at most.                                         *)
(***************************************************************************)
MaxHarnessSize == 3

ConnectorInputs ==
    {Connector(id, Enum("ConnectorType", "DTM"), pn, << >>) :
        id \in {"c1", "c2"}, pn \in {None, "123-456"}}

NodeInputs ==
    {Node("n1", "N1", Enum("NodeType", "CONNECTOR"), "c1", <<0, 0>>),
     Node("n1", "S0", Enum("NodeType", "SPLICE"), None, <<0, 0>>),
     Node("n2", "S1", Enum("NodeType", "SPLICE"), None, <<3, 4>>)}

ProtectionInputs ==
    {BranchProtection("p1", Enum("ProtectionType", t), None) :
        t \in {"TAPE", "SPIRAL_WRAP"}}

BranchInputs ==
    {HarnessBranch("b1", prot, <<<<0, 0>>, <<3, 0>>, <<3, 4>>>>, <<"n1", "n2">>) :
        prot \in {None, "p1"}}

WireInputs ==
    {Wire(id, Enum("WireType", "FLRY_B_0_35"), "BK", ends[1], ends[2],
          None, None, NoFloat) :
        id \in {"w1", "w2"}, ends \in {<<"n1", "n2">>, <<"n2", "n1">>}}

Size ==
    Len(connectors) + Len(wires) + Len(branches) + Len(protections)
    + Len(nodes) + Len(fasteners)

\* room for the entity e in the mapping d, within the model's bound
Room(d, e) == e.id \in Keys(d) \/ Size < MaxHarnessSize

Init ==
    /\ connectors = << >>
    /\ wires = << >>
    /\ branches = << >>
    /\ protections = << >>
    /\ nodes = << >>
    /\ fasteners = << >>
    /\ op = "init"
    /\ arg = << >>
    /\ result = NoResult
    /\ db = EmptyDb
    /\ editor = NoEditor

\* harness.connectors[connector.id] = connector
AddConnector ==
    \E e \in ConnectorInputs :
        /\ Room(connectors, e)
        /\ connectors' = DictSet(connectors, e)
        /\ op' = "add_connector"
        /\ arg' = <<e>>
        /\ result' = Returned(None)
        /\ UNCHANGED <<wires, branches, protections, nodes, fasteners, db, editor>>

\* harness.nodes[node.id] = node
AddNode ==
    \E e \in NodeInputs :
        /\ Room(nodes, e)
        /\ nodes' = DictSet(nodes, e)
        /\ op' = "add_node"
        /\ arg' = <<e>>
        /\ result' = Returned(None)
        /\ UNCHANGED <<connectors, wires, branches, protections, fasteners, db, editor>>

\* harness.wires[wire.id] = wire
AddWire ==
    \E e \in WireInputs :
        /\ Room(wires, e)
        /\ wires' = DictSet(wires, e)
        /\ op' = "add_wire"
        /\ arg' = <<e>>
        /\ result' = Returned(None)
        /\ UNCHANGED <<connectors, branches, protections, nodes, fasteners, db, editor>>

\* harness.branches[branch.id] = branch
AddBranch ==
    \E e \in BranchInputs :
        /\ Room(branches, e)
        /\ branches' = DictSet(branches, e)
        /\ op' = "add_branch"
        /\ arg' = <<e>>
        /\ result' = Returned(None)
        /\ UNCHANGED <<connectors, wires, protections, nodes, fasteners, db, editor>>

\* harness.protections[protection.id] = protection
AddProtection ==
    \E e \in ProtectionInputs :
        /\ Room(protections, e)
        /\ protections' = DictSet(protections, e)
        /\ op' = "add_protection"
        /\ arg' = <<e>>
        /\ result' = Returned(None)
        /\ UNCHANGED <<connectors, wires, branches, nodes, fasteners, db, editor>>

Next ==
    \/ AddConnector
    \/ AddNode
    \/ AddWire
    \/ AddBranch
    \/ AddProtection

Spec == Init /\ [][Next]_vars

\* C1: a wire whose from_node_id or to_node_id names no node of the harness
\* is rejected with DanglingReferenceError and is not inserted, and in every
\* state every wire's from_node_id and to_node_id are keys of harness.nodes.
C1_NoDanglingWire ==
    /\ (op = "add_wire"
        /\ ~({arg[1].from_node_id, arg[1].to_node_id} \subseteq Keys(nodes)))
           => (result = Raised("DanglingReferenceError")
               /\ arg[1] \notin Values(wires))
    /\ \A i \in 1..Len(wires) :
           {wires[i].from_node_id, wires[i].to_node_id} \subseteq Keys(nodes)

EndpointTuple(w) == <<w.from_node_id, w.from_pin, w.to_node_id, w.to_pin>>

\* C2: no two distinct wires of the harness have the same endpoint tuple
\* (from_node, from_pin, to_node, to_pin); the second add_wire with the tuple
\* of a wire already there fails with DuplicateEndpointError.
C2_UniqueEndpoints ==
    /\ \A i, j \in 1..Len(wires) :
           i # j => EndpointTuple(wires[i]) # EndpointTuple(wires[j])
    /\ (op = "add_wire"
        /\ \E i \in 1..Len(wires) :
              /\ wires[i].id # arg[1].id
              /\ EndpointTuple(wires[i]) = EndpointTuple(arg[1]))
           => result = Raised("DuplicateEndpointError")

\* the mapping an add-operation writes
Mapping(o) ==
    CASE o = "add_connector" -> connectors
      [] o = "add_node" -> nodes
      [] o = "add_wire" -> wires
      [] o = "add_branch" -> branches
      [] o = "add_protection" -> protections

AddOps ==
    {"add_connector", "add_node", "add_wire", "add_branch", "add_protection"}

\* C3: an add-operation given an entity whose id is already a key of its
\* mapping fails with DuplicateIdError and changes nothing in the harness.
C3_DuplicateIdRejected ==
    [][(op' \in AddOps /\ arg'[1].id \in Keys(Mapping(op'))) =>
           (result' = Raised("DuplicateIdError") /\ UNCHANGED harnessVars)]_vars

(***************************************************************************)
(* SpecGeom: calculate_length on one branch with any path of at most        *)
(* MaxPathLen points.                                                       *)
(***************************************************************************)
MaxPathLen == 4

PathsUpTo(n) == UNION {[1..k -> Points] : k \in 0..n}

InitGeom ==
    /\ connectors = << >>
    /\ wires = << >>
    /\ \E p \in PathsUpTo(MaxPathLen) :
           branches = <<HarnessBranch("b1", None, p, << >>)>>
    /\ protections = << >>
    /\ nodes = << >>
    /\ fasteners = << >>
    /\ op = "init"
    /\ arg = << >>
    /\ result = NoResult
    /\ db = EmptyDb
    /\ editor = NoEditor

\* branch.calculate_length() for a branch of the harness
CalculateLength ==
    /\ \E i \in 1..Len(branches) :
           /\ op' = "calculate_length"
           /\ arg' = <<branches[i].id>>
           /\ result' = Returned(calculate_length(branches[i]))
    /\ UNCHANGED <<harnessVars, db, editor>>

NextGeom == CalculateLength

SpecGeom == InitGeom /\ [][NextGeom]_vars

Reverse(s) == [i \in 1..Len(s) |-> s[Len(s) + 1 - i]]

\* the sum of the distances between consecutive points among the first n,
\* added from the first segment on
RECURSIVE SumDist(_, _)
SumDist(pp, n) ==
    IF n < 2 THEN FZero
    ELSE FAdd(SumDist(pp, n - 1), FSqrt(SqDist(pp[n - 1], pp[n])))

ExamplePath == <<<<0, 0>>, <<3, 0>>, <<3, 4>>>>

\* C9: calculate_length returns the sum of the distances between consecutive
\* path points, 0 for fewer than 2 points, and 7.0 on [(0,0),(3,0),(3,4)].
C9_BranchLength ==
    op = "calculate_length" =>
        LET pp == Get(branches, arg[1]).path_points
        IN  /\ Len(pp) < 2 => result.ret = FZero
            /\ result.ret = SumDist(pp, Len(pp))
            /\ pp = ExamplePath => result.ret = FFromInt(7)

C9_Witness ==
    /\ op = "calculate_length"
    /\ Get(branches, arg[1]).path_points = ExamplePath
    /\ result.ret = FFromInt(7)

\* C10 as claimed: the length is non-negative and equal to the length of the
\* reversed sequence, for every sequence.
C10_ReverseAlways ==
    op = "calculate_length" =>
        LET b == Get(branches, arg[1])
        IN  /\ ~FLess(result.ret, FZero)
            /\ result.ret = calculate_length([b EXCEPT !.path_points = Reverse(@)])

\* C10 as amended: the length is non-negative, and it is equal to the length
\* of the reversed sequence when the sequence has at most 3 points (at most
\* two distances to add).
C10_ReverseUpTo3 ==
    op = "calculate_length" =>
        LET b == Get(branches, arg[1])
        IN  /\ ~FLess(result.ret, FZero)
            /\ Len(b.path_points) <= 3 =>
                   result.ret = calculate_length(
                                [b EXCEPT !.path_points = Reverse(@)])

C10_Witness ==
    /\ op = "calculate_length"
    /\ Get(branches, arg[1]).path_points = <<<<0, 0>>, <<0, 1>>, <<1, 0>>>>
    /\ result.ret = FAdd(FFromInt(1), FSqrt(2))
    /\ result.ret # FFromInt(2)

(***************************************************************************)
(* SpecCalc: the length engine and the reports on a harness handed to the   *)
(* constructor WiringHarness(...).  The harnesses drawn are structurally    *)
(* valid: ids are unique and every reference resolves.  They hold MaxEntities*)
(* wires and branches at most, any cached lengths, with or without a        *)
(* protection on the first branch.                                          *)
(***************************************************************************)
MaxEntities == 3

HundredPath == <<<<0, 0>>, <<100, 0>>>>

ZigZagPath == <<<<0, 0>>, <<0, 1>>, <<1, 0>>, <<0, 1>>>>

BranchPaths == {ExamplePath, HundredPath, ZigZagPath}

BranchMembers == {<<"n1", "n2">>, <<"n2">>}

WireEnds == {<<"n1", "n2">>, <<"n2", "n2">>}

StaleLengths == {NoFloat, FFromInt(5)}

FixedNodes ==
    <<Node("n1", "N1", Enum("NodeType", "CONNECTOR"), "c1", <<0, 0>>),
      Node("n2", "S1", Enum("NodeType", "SPLICE"), None, <<3, 4>>)>>

FixedConnectors ==
    <<Connector("c1", Enum("ConnectorType", "DTM"), None,
          <<Pin("1", Enum("Gender", "MALE"), Enum("SealType", "UNSEALED"), "w1"),
            Pin("2", Enum("Gender", "MALE"), Enum("SealType", "UNSEALED"), None)>>)>>

FixedFasteners ==
    <<Fastener("f1", FastenerType("ft1", "Clip"), "PN1", 2, "M6", NoFloat,
               None, "n1")>>

TapeProtection == BranchProtection("p1", Enum("ProtectionType", "TAPE"), None)

WireSeqs(n) ==
    {[i \in 1..n |->
        Wire("w" \o ToString(i), Enum("WireType", "FLRY_B_0_35"), "BK",
             c[i][1][1], c[i][1][2],
             IF c[i][1][1] = "n1" THEN "1" ELSE None, None, c[i][2])] :
     c \in [1..n -> WireEnds \X StaleLengths]}

BranchSeqs(n, protected) ==
    {[i \in 1..n |->
        HarnessBranch("b" \o ToString(i),
                      IF protected /\ i = 1 THEN "p1" ELSE None,
                      c[i][1], c[i][2])] :
     c \in [1..n -> BranchPaths \X BranchMembers]}

InitCalc ==
    /\ connectors = FixedConnectors
    /\ nodes = FixedNodes
    /\ fasteners = FixedFasteners
    /\ \E nw \in 0..MaxEntities :
         \E nb \in 0..(MaxEntities - nw) :
           \E protected \in BOOLEAN :
             /\ wires \in WireSeqs(nw)
             /\ branches \in BranchSeqs(nb, protected)
             /\ protections = IF protected THEN <<TapeProtection>> ELSE << >>
    /\ op = "init"
    /\ arg = << >>
    /\ result = NoResult
    /\ db = EmptyDb
    /\ editor = NoEditor

\* WiringHarness.calculate_branch_wire_lengths
CalculateBranchWireLengths ==
    /\ wires' = WiresWithLengths(wires, branches)
    /\ op' = "calculate_branch_wire_lengths"
    /\ arg' = << >>
    /\ result' = Returned(WireLengths(wires, branches))
    /\ UNCHANGED <<connectors, branches, protections, nodes, fasteners, db, editor>>

\* WiringHarness.generate_bom
GenerateBom ==
    /\ op' = "generate_bom"
    /\ arg' = << >>
    /\ result' = generate_bom(connectors, wires, branches, protections)
    /\ UNCHANGED <<harnessVars, db, editor>>

\* WiringHarness.generate_pinout_report, for a connector id known or not
GeneratePinoutReport ==
    /\ \E connector_id \in Keys(connectors) \cup {"cX"} :
           /\ arg' = <<connector_id>>
           /\ result' = generate_pinout_report(connectors, wires, nodes,
                                               connector_id)
    /\ op' = "generate_pinout_report"
    /\ UNCHANGED <<harnessVars, db, editor>>

\* WiringHarness.generate_fastener_bom
GenerateFastenerBom ==
    /\ op' = "generate_fastener_bom"
    /\ arg' = << >>
    /\ result' = generate_fastener_bom(fasteners)
    /\ UNCHANGED <<harnessVars, db, editor>>

NextCalc ==
    \/ CalculateBranchWireLengths
    \/ GenerateBom
    \/ GeneratePinoutReport
    \/ GenerateFastenerBom

SpecCalc == InitCalc /\ [][NextCalc]_vars

\* C5: the three reports return a result on every structurally valid harness.
C5_ReportsNeverRaise ==
    op \in {"generate_bom", "generate_pinout_report", "generate_fastener_bom"}
        => "ret" \in DOMAIN result

C5_Witness ==
    /\ op = "generate_bom"
    /\ protections # << >>
    /\ result = Raised("AttributeError")

\* a wire runs through a branch when both its ends are members of the branch
Applicable(branch, wire) ==
    {wire.from_node_id, wire.to_node_id}
        \subseteq {branch.nodes[k] : k \in 1..Len(branch.nodes)}

\* the lengths of the branches among the first n that a wire runs through,
\* added in the order of the branches
RECURSIVE RawSum(_, _, _)
RawSum(bs, wire, n) ==
    IF n = 0 THEN FZero
    ELSE IF Applicable(bs[n], wire)
         THEN FAdd(RawSum(bs, wire, n - 1), SumDist(bs[n].path_points,
                                                    Len(bs[n].path_points)))
         ELSE RawSum(bs, wire, n - 1)

\* one unit in the last place of the float v, in units of 2^-52
Ulp(v) ==
    IF BitLen(v.f) <= Precision THEN BOne
    ELSE BShl(BOne, BitLen(v.f) - Precision)

\* |10 * v - 11 * raw| <= 20 * ulp(v): v is 1.10 * raw to within two ulps
\* (one rounding in reading 1.1, one in the product)
WithinTwoUlps(v, raw) ==
    LET tenV  == BMulSmall(v.f, 10)
        elevR == BMulSmall(raw.f, 11)
        slack == BMulSmall(Ulp(v), 20)
    IN  /\ BCmp(tenV, BAdd(elevR, slack)) <= 0
        /\ BCmp(elevR, BAdd(tenV, slack)) <= 0

\* 110.00000000000001, the float after 110.0
After110 == [f |-> BAdd(FFromInt(110).f, Ulp(FFromInt(110)))]

\* C6 as claimed: the mapping has exactly the wire ids as keys, every value is
\* exactly 1.10 times the sum of the lengths of the branches the wire runs
\* through (0 when there is none) and is stored in calculated_length_mm; a
\* wire over one branch of raw length 100.0 yields 110.0.
C6_ExactlyTenPercent ==
    op = "calculate_branch_wire_lengths" =>
        /\ KeySeq(result.ret) = KeySeq(wires)
        /\ \A i \in 1..Len(wires) :
             LET raw == RawSum(branches, wires[i], Len(branches))
                 v   == result.ret[i].value
             IN  /\ BMulSmall(v.f, 10) = BMulSmall(raw.f, 11)
                 /\ wires[i].calculated_length_mm = v
                 /\ raw = FFromInt(100) => v = FFromInt(110)

\* C6 as amended: the mapping has exactly the wire ids as keys, every value is
\* the float product of the sum of the lengths of the branches the wire runs
\* through and the float 1.1, which is 1.10 times the sum to within two units
\* in the last place (0 when there is none), and it is stored in
\* calculated_length_mm; a raw length of 100.0 yields 110.00000000000001.
C6_TimesFloatFactor ==
    op = "calculate_branch_wire_lengths" =>
        /\ KeySeq(result.ret) = KeySeq(wires)
        /\ \A i \in 1..Len(wires) :
             LET raw == RawSum(branches, wires[i], Len(branches))
                 v   == result.ret[i].value
             IN  /\ v = FMul(raw, FFromRatio(11, 10))
                 /\ WithinTwoUlps(v, raw)
                 /\ (\A k \in 1..Len(branches) :
                        ~Applicable(branches[k], wires[i])) => v = FZero
                 /\ wires[i].calculated_length_mm = v
                 /\ raw = FFromInt(100) => v = After110

C6_Witness ==
    /\ op = "calculate_branch_wire_lengths"
    /\ \E i \in 1..Len(wires) :
         /\ RawSum(branches, wires[i], Len(branches)) = FFromInt(100)
         /\ result.ret[i].value = After110
         /\ wires[i].calculated_length_mm = After110

\* C7: a second call of calculate_branch_wire_lengths on the harness the
\* first call left returns the mapping the first call returned and leaves
\* every cached length as it is, whatever the cache held before the first.
C7_Idempotent ==
    op = "calculate_branch_wire_lengths" =>
        /\ WireLengths(wires, branches) = result.ret
        /\ WiresWithLengths(wires, branches) = wires

C7_Witness ==
    /\ op = "calculate_branch_wire_lengths"
    /\ \E i \in 1..Len(wires) :
         /\ wires[i].calculated_length_mm # FZero
         /\ wires[i].calculated_length_mm # FFromInt(5)
         /\ wires[i].calculated_length_mm = result.ret[i].value

\* the cached lengths of the first n wires, None counted as 0, added in the
\* order of the wires
RECURSIVE SumCached(_, _)
SumCached(ws, n) ==
    IF n = 0 THEN FZero
    ELSE FAdd(SumCached(ws, n - 1),
              IF ws[n].calculated_length_mm = NoFloat THEN FZero
              ELSE ws[n].calculated_length_mm)

\* C8: generate_bom called after calculate_branch_wire_lengths returns a
\* total_wire_length equal to the sum of the wires' calculated_length_mm.
C8_BomTotalAfterCalc ==
    [][(op = "calculate_branch_wire_lengths" /\ op' = "generate_bom") =>
           /\ "ret" \in DOMAIN result'
           /\ result'.ret.total_wire_length = SumCached(wires', Len(wires'))]_vars

\* what holds of C8: the same, for a harness without protections
C8_BomTotalWithoutProtections ==
    [][(op = "calculate_branch_wire_lengths" /\ op' = "generate_bom"
        /\ protections = << >>) =>
           /\ "ret" \in DOMAIN result'
           /\ result'.ret.total_wire_length = SumCached(wires', Len(wires'))]_vars

(***************************************************************************)
(* SpecLoad: DataLoader.load_harness over a database.  The database is a    *)
(* record of tables, each the sequence of its rows in the order a SELECT    *)
(* returns them.  A DECIMAL column that holds a whole number is that        *)
(* number; float() of it is the float of the same value.  The databases     *)
(* drawn satisfy the schema of database/models.py: primary keys are unique, *)
(* every foreign key names a row of its table, and type ids are names of    *)
(* the enum members.  Harness H1 has MaxDbWires wires and MaxDbBranches     *)
(* branches at most; H2 is a second harness that may own the node n2 or     *)
(* the protection p1.                                                       *)
(***************************************************************************)
MaxDbWires == 2

MaxDbBranches == 1

\* SQL NULL, and a DECIMAL column holding the whole number n
Null == [null |-> TRUE]

Decimal(n) == [dec |-> n]

\* the rows of a table that belong to the harness:  .where(T.harness == id)
RowsOf(rows, harness_id) == SelectSeq(rows, LAMBDA r : r.harness = harness_id)

\* list.sort(key=lambda x: x[0]), a stable sort: p goes after the points
\* whose x is not greater
InsertByX(sorted, p) ==
    LET k == Cardinality({i \in 1..Len(sorted) : sorted[i][1] <= p[1]})
    IN  SubSeq(sorted, 1, k) \o <<p>> \o SubSeq(sorted, k + 1, Len(sorted))

RECURSIVE SortByX(_)
SortByX(points) ==
    IF points = << >> THEN << >>
    ELSE InsertByX(SortByX(SubSeq(points, 1, Len(points) - 1)),
                   points[Len(points)])

\* float(wire.calculated_length_mm) if wire.calculated_length_mm else None
LoadedLength(column) ==
    IF column = Null THEN NoFloat
    ELSE IF column.dec = 0 THEN NoFloat
    ELSE FFromInt(column.dec)

\* the pins dict of one connector row
connector_pins(database, connector) ==
    LET rows == SelectSeq(database.pins, LAMBDA r : r.connector = connector.id)
    IN  [i \in 1..Len(rows) |->
            Pin(rows[i].number, Str(rows[i].gender), Str(rows[i].seal_type),
                None)]

connector_models(database, harness_id) ==
    LET rows == RowsOf(database.connectors, harness_id)
    IN  [i \in 1..Len(rows) |->
            Connector(rows[i].id, Enum("ConnectorType", rows[i].type),
                      rows[i].part_number, connector_pins(database, rows[i]))]

\* built at lines 69-79 and passed to nothing
node_models(database, harness_id) ==
    LET rows == RowsOf(database.nodes, harness_id)
    IN  [i \in 1..Len(rows) |->
            Node(rows[i].id, rows[i].name, Str(rows[i].type),
                 rows[i].connector,
                 <<rows[i].position_x, rows[i].position_y>>)]

wire_models(database, harness_id) ==
    LET rows == RowsOf(database.wires, harness_id)
    IN  [i \in 1..Len(rows) |->
            Wire(rows[i].id, Enum("WireType", rows[i].type),
                 rows[i].color_code, rows[i].from_node, rows[i].to_node,
                 rows[i].from_connector_pin, rows[i].to_connector_pin,
                 LoadedLength(rows[i].calculated_length_mm))]

\* the path points of one branch row: the rows of branch_paths in the order
\* they come, then sorted by x
LoadedPath(database, branch) ==
    LET rows == SelectSeq(database.branch_paths,
                          LAMBDA r : r.branch = branch.id)
    IN  SortByX([i \in 1..Len(rows) |->
                    <<rows[i].position_x, rows[i].position_y>>])

branch_models(database, harness_id) ==
    LET rows == RowsOf(database.branches, harness_id)
    IN  [i \in 1..Len(rows) |->
            HarnessBranch(rows[i].id, rows[i].protection,
                          LoadedPath(database, rows[i]),
                          KeySeq(RowsOf(database.nodes, harness_id)))]

\* the tables drawn
NodeRow(id, harness, type, connector, x, y) ==
    [id |-> id, harness |-> harness, name |-> id, type |-> type,
     connector |-> connector, position_x |-> x, position_y |-> y]

NodeTables ==
    {<< >>,
     <<NodeRow("n1", "H1", "SPLICE", None, 0, 0),
       NodeRow("n2", "H1", "SPLICE", None, 3, 4)>>,
     <<NodeRow("n1", "H1", "SPLICE", None, 0, 0),
       NodeRow("n2", "H2", "SPLICE", None, 3, 4)>>}

DbWireEnds == {<<"n1", "n2">>, <<"n1", "n1">>}

DbLengths == {Null, Decimal(0), Decimal(5)}

WireTables(n) ==
    {[i \in 1..n |->
        [id |-> "w" \o ToString(i), harness |-> "H1", type |-> "FLRY_B_0_35",
         color_code |-> "BK", from_node |-> c[i][1][1],
         from_connector_pin |-> None, to_node |-> c[i][1][2],
         to_connector_pin |-> None, calculated_length_mm |-> c[i][2]]] :
     c \in [1..n -> DbWireEnds \X DbLengths]}

ProtectionTables ==
    {[i \in 1..1 |->
        [id |-> "p1", harness |-> h, type |-> "TAPE", part_number |-> None,
         diameter_mm |-> Null]] : h \in {"H1", "H2"}}
    \cup {<< >>}

PathRow(branch, sequence_number, x, y) ==
    [branch |-> branch, sequence_number |-> sequence_number,
     position_x |-> x, position_y |-> y]

\* the path rows of one branch, in retrieval order
PathTables(b) ==
    {<< >>,
     <<PathRow(b, 1, 0, 0), PathRow(b, 2, 3, 0), PathRow(b, 3, 3, 4)>>,
     <<PathRow(b, 1, 3, 4), PathRow(b, 2, 3, 0), PathRow(b, 3, 0, 0)>>,
     <<PathRow(b, 2, 3, 0), PathRow(b, 1, 0, 0), PathRow(b, 3, 3, 4)>>,
     <<PathRow(b, 1, 100, 0), PathRow(b, 2, 0, 0)>>}

BranchTables(n, prots) ==
    {[i \in 1..n |->
        [id |-> "b" \o ToString(i), harness |-> "H1",
         name |-> "B" \o ToString(i), protection |-> c[i]]] :
     c \in [1..n -> {None} \cup Keys(prots)]}

RECURSIVE PathTablesFor(_, _)
PathTablesFor(bs, i) ==
    IF i > Len(bs) THEN {<< >>}
    ELSE {first \o rest : first \in PathTables(bs[i].id),
                          rest \in PathTablesFor(bs, i + 1)}

ConnectorTables ==
    {<< >>,
     <<[id |-> "c1", harness |-> "H1", name |-> "C1", type |-> "DTM",
        part_number |-> "123-456", gender |-> "MALE",
        seal_type |-> "UNSEALED", position_x |-> 0, position_y |-> 0]>>}

PinTables(cs) ==
    {<< >>} \cup
    {<<[id |-> "1", connector |-> "c1", number |-> "1", gender |-> "MALE",
        seal_type |-> "UNSEALED"]>> : c \in Keys(cs)}

Databases ==
    {[harnesses |-> {"H1", "H2"}, connectors |-> cs, pins |-> pn,
      nodes |-> ns, wires |-> ws, branches |-> bs, protections |-> ps,
      branch_paths |-> bp] :
        cs \in ConnectorTables, pn \in UNION {PinTables(c) : c \in ConnectorTables},
        ns \in NodeTables,
        ws \in UNION {WireTables(n) : n \in 0..MaxDbWires},
        ps \in ProtectionTables,
        bs \in UNION {BranchTables(n, p) : n \in 0..MaxDbBranches,
                                           p \in ProtectionTables},
        bp \in UNION {PathTablesFor(b, 1) :
                        b \in UNION {BranchTables(n, p) :
                                        n \in 0..MaxDbBranches,
                                        p \in ProtectionTables}}}

\* the schema's constraints: foreign keys name rows, path rows and pins
\* belong to rows that exist, and the path rows are those of the branches.
\* The unique index of the wires (models.py lines 77-80) spans the two pin
\* columns, which are NULL in every row drawn: SQL holds NULLs distinct, so
\* the index admits any of these rows.
SchemaHolds(database) ==
    /\ \A i \in 1..Len(database.wires) :
           {database.wires[i].from_node, database.wires[i].to_node}
               \subseteq Keys(database.nodes)
    /\ \A i \in 1..Len(database.branches) :
           database.branches[i].protection
               \in {None} \cup Keys(database.protections)
    /\ \A i \in 1..Len(database.branch_paths) :
           database.branch_paths[i].branch \in Keys(database.branches)
    /\ \A i \in 1..Len(database.pins) :
           database.pins[i].connector \in Keys(database.connectors)

InitLoad ==
    /\ db \in {database \in Databases : SchemaHolds(database)}
    /\ editor = NoEditor
    /\ connectors = << >>
    /\ wires = << >>
    /\ branches = << >>
    /\ protections = << >>
    /\ nodes = << >>
    /\ fasteners = << >>
    /\ op = "init"
    /\ arg = << >>
    /\ result = NoResult

HarnessIds == {"H1", "H9"}

\* DataLoader.load_harness
LoadHarness ==
    \E harness_id \in HarnessIds :
        /\ op' = "load_harness"
        /\ arg' = <<harness_id>>
        /\ IF harness_id \notin db.harnesses
           THEN /\ result' = Raised("ValueError")
                /\ UNCHANGED harnessVars
           ELSE IF RowsOf(db.protections, harness_id) # << >>
           THEN /\ result' = Raised("TypeError")
                /\ UNCHANGED harnessVars
           ELSE /\ result' = Returned("WiringHarness")
                /\ connectors' = connector_models(db, harness_id)
                /\ wires' = wire_models(db, harness_id)
                /\ branches' = branch_models(db, harness_id)
                /\ protections' = << >>
                /\ nodes' = << >>
                /\ fasteners' = << >>
        /\ UNCHANGED <<db, editor>>

\* a harness has been returned, and the last call has not just failed
HarnessLoaded == op # "init" /\ "raised" \notin DOMAIN result

NextLoad ==
    \/ LoadHarness
    \/ (HarnessLoaded /\ CalculateBranchWireLengths)
    \/ (HarnessLoaded /\ GenerateBom)

SpecLoad == InitLoad /\ [][NextLoad]_vars

\* C4: in the harness load_harness returns every wire's from_node_id and
\* to_node_id is a key of harness.nodes, every member node id of a branch is
\* a key of harness.nodes and every branch protection_id is a key of
\* harness.protections.
C4_LoadedReferencesResolve ==
    (op = "load_harness" /\ "ret" \in DOMAIN result) =>
        /\ \A i \in 1..Len(wires) :
               {wires[i].from_node_id, wires[i].to_node_id} \subseteq Keys(nodes)
        /\ \A i \in 1..Len(branches) :
               /\ \A k \in 1..Len(branches[i].nodes) :
                      branches[i].nodes[k] \in Keys(nodes)
               /\ branches[i].protection_id # None =>
                      branches[i].protection_id \in Keys(protections)


(***************************************************************************)
(* SpecDist: the two queries of a branch, find_distance_to_node and         *)
(* calculate_wire_length, on one branch with any path of MaxDistPathLen     *)
(* points at most, the node n1 anywhere and the node n2 at (3, 4).          *)
(***************************************************************************)
MaxDistPathLen == 3

DistWires ==
    <<Wire("w1", Enum("WireType", "FLRY_B_0_35"), "BK", "n1", "n2", None, None,
           NoFloat),
      Wire("w2", Enum("WireType", "FLRY_B_0_35"), "BK", "n2", "n2", None, None,
           NoFloat),
      Wire("w3", Enum("WireType", "FLRY_B_0_35"), "RD", "n2", "nX", None, None,
           NoFloat)>>

InitDist ==
    /\ connectors = << >>
    /\ wires = DistWires
    /\ \E p \in PathsUpTo(MaxDistPathLen) :
         \E members \in BranchMembers :
           branches = <<HarnessBranch("b1", None, p, members)>>
    /\ protections = << >>
    /\ \E q \in Points :
           nodes = <<Node("n1", "N1", Enum("NodeType", "SPLICE"), None, q),
                     Node("n2", "S1", Enum("NodeType", "SPLICE"), None, <<3, 4>>)>>
    /\ fasteners = << >>
    /\ op = "init"
    /\ arg = << >>
    /\ result = NoResult
    /\ db = EmptyDb
    /\ editor = NoEditor

\* branch.find_distance_to_node(node_id, harness.nodes), for an id known or not
FindDistanceToNode ==
    /\ \E i \in 1..Len(branches) :
         \E node_id \in Keys(nodes) \cup {"nX"} :
           /\ arg' = <<branches[i].id, node_id>>
           /\ result' = Returned(find_distance_to_node(branches[i], node_id,
                                                       nodes))
    /\ op' = "find_distance_to_node"
    /\ UNCHANGED <<harnessVars, db, editor>>

\* branch.calculate_wire_length(wire, harness.nodes)
CalculateWireLength ==
    /\ \E i \in 1..Len(branches) :
         \E k \in 1..Len(wires) :
           /\ arg' = <<branches[i].id, wires[k].id>>
           /\ result' = Returned(calculate_wire_length(branches[i], wires[k]))
    /\ op' = "calculate_wire_length"
    /\ UNCHANGED <<harnessVars, db, editor>>

NextDist ==
    \/ FindDistanceToNode
    \/ CalculateWireLength

SpecDist == InitDist /\ [][NextDist]_vars

\* is the index i (from 1) the one of the path point nearest to the position,
\* the earliest among the equally near?  Nearness by the exact squared distance
Nearest(pp, position, i) ==
    /\ \A k \in 1..Len(pp) : SqDist(position, pp[i]) <= SqDist(position, pp[k])
    /\ \A k \in 1..(i - 1) : SqDist(position, pp[i]) < SqDist(position, pp[k])

\* C11: for a resolved node and a branch with at least one path point,
\* find_distance_to_node returns the length of the path up to the point
\* nearest to the node's position, the earliest of the equally near ones, and
\* 0.0 when the node sits on the first path point.
C11_DistanceToNearest ==
    (op = "find_distance_to_node" /\ arg[2] \in Keys(nodes)
     /\ Get(branches, arg[1]).path_points # << >>) =>
        LET pp == Get(branches, arg[1]).path_points
            position == Get(nodes, arg[2]).position
        IN  /\ \E i \in 1..Len(pp) :
                   Nearest(pp, position, i) /\ result.ret = SumDist(pp, i)
            /\ position = pp[1] => result.ret = FZero

C11_Witness ==
    /\ op = "find_distance_to_node"
    /\ arg[2] = "n2"
    /\ Get(branches, arg[1]).path_points = ExamplePath
    /\ result.ret = FFromInt(7)

\* C12: find_distance_to_node returns None when the branch has no path points
\* and when the node id is not a key of the node mapping.
C12_NotFound ==
    (op = "find_distance_to_node"
     /\ (Get(branches, arg[1]).path_points = << >> \/ arg[2] \notin Keys(nodes)))
        => result.ret = NoFloat

\* C13: calculate_wire_length returns the full length of the branch exactly
\* when both from_node_id and to_node_id are member node ids of the branch,
\* and None otherwise, also when one endpoint only is a member.
C13_FullLengthOrNone ==
    op = "calculate_wire_length" =>
        LET branch == Get(branches, arg[1])
            wire == Get(wires, arg[2])
            members == {branch.nodes[k] : k \in 1..Len(branch.nodes)}
            pp == branch.path_points
        IN  IF {wire.from_node_id, wire.to_node_id} \subseteq members
            THEN result.ret = SumDist(pp, Len(pp))
            ELSE result.ret = NoFloat

C13_Witness ==
    /\ op = "calculate_wire_length"
    /\ arg[2] = "w1"
    /\ Get(branches, arg[1]).nodes = <<"n2">>
    /\ Get(branches, arg[1]).path_points = ExamplePath
    /\ result.ret = NoFloat


(***************************************************************************)
(* SpecQuery: the lookups and the pinout report on harnesses handed to the  *)
(* constructor: the connector c1 with any of five pin layouts, c2 without   *)
(* pins, the node n1 on c1, the node n2 of any type with or without a       *)
(* connector_id, and two wires between any ends, one of them naming a node  *)
(* the harness does not have.  Every field holds a value of its declared    *)
(* type.                                                                    *)
(***************************************************************************)
QueryPin(number, wire_id) ==
    Pin(number, Enum("Gender", "MALE"), Enum("SealType", "UNSEALED"), wire_id)

PinLayouts ==
    {<< >>,
     <<QueryPin("1", "w1")>>,
     <<QueryPin("1", "w1"), QueryPin("2", None)>>,
     <<QueryPin("2", "w1"), QueryPin("1", "w2")>>,
     <<QueryPin("1", "w9"), QueryPin("2", "w2")>>}

SecondNodes ==
    {Node("n2", "N2", Enum("NodeType", ty[1]), ty[2], <<3, 4>>) :
        ty \in {<<"CONNECTOR", "c1">>, <<"CONNECTOR", "c2">>,
                <<"CONNECTOR", None>>, <<"SPLICE", None>>,
                <<"SPLICE", "c2">>}}

QueryEnds == {<<"n1", "n2">>, <<"n2", "n1">>, <<"n2", "n2">>, <<"n1", "nX">>}

InitQuery ==
    /\ \E pins \in PinLayouts :
           connectors =
               <<Connector("c1", Enum("ConnectorType", "DTM"), None, pins),
                 Connector("c2", Enum("ConnectorType", "OTHER"), "123-456",
                           << >>)>>
    /\ \E e1 \in QueryEnds : \E e2 \in QueryEnds :
           wires =
               <<Wire("w1", Enum("WireType", "FLRY_B_0_35"), "BK", e1[1], e1[2],
                      "1", "2", NoFloat),
                 Wire("w2", Enum("WireType", "FLRY_B_0_5"), "RD", e2[1], e2[2],
                      "3", "4", NoFloat)>>
    /\ branches = << >>
    /\ protections = << >>
    /\ \E second \in SecondNodes :
           nodes = <<Node("n1", "N1", Enum("NodeType", "CONNECTOR"), "c1",
                          <<0, 0>>), second>>
    /\ fasteners = << >>
    /\ op = "init"
    /\ arg = << >>
    /\ result = NoResult
    /\ db = EmptyDb
    /\ editor = NoEditor

\* WiringHarness.get_connector_pins, for a connector id known or not
GetConnectorPins ==
    /\ \E connector_id \in Keys(connectors) \cup {"cX"} :
           /\ arg' = <<connector_id>>
           /\ result' = Returned(get_connector_pins(connectors, connector_id))
    /\ op' = "get_connector_pins"
    /\ UNCHANGED <<harnessVars, db, editor>>

\* WiringHarness.get_wires_for_connector, for a connector id known or not
GetWiresForConnector ==
    /\ \E connector_id \in Keys(connectors) \cup {"cX"} :
           /\ arg' = <<connector_id>>
           /\ result' = Returned(get_wires_for_connector(wires, nodes,
                                                         connector_id))
    /\ op' = "get_wires_for_connector"
    /\ UNCHANGED <<harnessVars, db, editor>>

NextQuery ==
    \/ GeneratePinoutReport
    \/ GetConnectorPins
    \/ GetWiresForConnector

SpecQuery == InitQuery /\ [][NextQuery]_vars

DescribedByType(node, pin) ==
    IF node.type = Enum("NodeType", "CONNECTOR")
    THEN <<"Connector", node.connector_id, "Pin", pin>>
    ELSE <<EnumValue(node.type), node.name>>

\* the text for the node at one end of a wire, by the node's connector_id
DescribedByConnectorId(node, pin) ==
    IF node.connector_id # None
    THEN <<"Connector", node.connector_id, "Pin", pin>>
    ELSE <<EnumValue(node.type), node.name>>

\* the rows of the last pinout report that have a wire, as <<row, wire>>
WiredRows ==
    IF op = "generate_pinout_report" /\ "ret" \in DOMAIN result
    THEN {<<result.ret[i], Get(wires, result.ret[i].wire_id)>> :
             i \in {k \in 1..Len(result.ret) :
                       result.ret[k].wire_id \in Keys(wires)}}
    ELSE {}

\* C15 as claimed, for the wires whose two nodes resolve: connected_to is the
\* text of the end opposite to the reported connector (of either end when
\* both are on it), "Connector {id}, Pin {pin}" when that node is of type
\* CONNECTOR and "{NodeType} {name}" otherwise, whether or not the node's
\* connector_id is set; "Unknown" only when neither end is on the connector.
C15_OppositeEndByType ==
    \A rw \in WiredRows :
        LET wire == rw[2]
            from_on == OnConnector(nodes, wire.from_node_id, arg[1])
            to_on == OnConnector(nodes, wire.to_node_id, arg[1])
        IN  {wire.from_node_id, wire.to_node_id} \subseteq Keys(nodes) =>
                rw[1].connected_to \in
                    (IF from_on
                     THEN {DescribedByType(Get(nodes, wire.to_node_id),
                                           wire.to_pin)}
                     ELSE {})
                    \cup
                    (IF to_on
                     THEN {DescribedByType(Get(nodes, wire.from_node_id),
                                           wire.from_pin)}
                     ELSE {})
                    \cup
                    (IF ~from_on /\ ~to_on THEN {<<"Unknown">>} ELSE {})

\* C15, what holds instead: the end on the reported connector is the from-end
\* when the from-node is on it, else the to-end; connected_to is the text of the node
\* at the other end, "Connector {connector_id}, Pin {pin}" when that node has
\* a connector_id and "{NodeType} {name}" when it has none, whatever its
\* type; it is "Unknown" when neither end is on the connector or the node at
\* the other end is not in the harness.
C15_OppositeEndByConnectorId ==
    \A rw \in WiredRows :
        LET wire == rw[2]
            from_on == OnConnector(nodes, wire.from_node_id, arg[1])
            to_on == OnConnector(nodes, wire.to_node_id, arg[1])
        IN  rw[1].connected_to =
                IF from_on
                THEN IF wire.to_node_id \in Keys(nodes)
                     THEN DescribedByConnectorId(Get(nodes, wire.to_node_id),
                                                 wire.to_pin)
                     ELSE <<"Unknown">>
                ELSE IF to_on
                THEN DescribedByConnectorId(Get(nodes, wire.from_node_id),
                                            wire.from_pin)
                ELSE <<"Unknown">>

C15_Witness ==
    /\ op = "generate_pinout_report"
    /\ arg = <<"c1">>
    /\ Get(nodes, "n2").type = Enum("NodeType", "CONNECTOR")
    /\ Get(nodes, "n2").connector_id = None
    /\ \E rw \in WiredRows :
           /\ rw[2].from_node_id = "n1"
           /\ rw[2].to_node_id = "n2"
           /\ rw[1].connected_to = <<"CONNECTOR", "N2">>

\* C17: get_connector_pins returns the empty mapping for an id that is not a
\* key of harness.connectors and the pins of the connector for one that is;
\* it raises nothing and leaves the harness as it was.
C17_PinsOrEmpty ==
    [][op' = "get_connector_pins" =>
          /\ UNCHANGED harnessVars
          /\ "ret" \in DOMAIN result'
          /\ arg'[1] \notin Keys(connectors) => result'.ret = << >>
          /\ \A i \in 1..Len(connectors) :
                 connectors[i].id = arg'[1] => result'.ret = connectors[i].pins
      ]_vars

C17_Witness ==
    /\ op = "get_connector_pins"
    /\ arg = <<"cX">>
    /\ connectors[1].pins # << >>
    /\ result = Returned(<< >>)

\* the indices of the wires with an end on the connector
IndicesOn(connector_id) ==
    {i \in 1..Len(wires) :
        \E end \in {wires[i].from_node_id, wires[i].to_node_id} :
            \E k \in 1..Len(nodes) :
                nodes[k].id = end /\ nodes[k].connector_id = connector_id}

\* C18: get_wires_for_connector returns the wires that have an end whose node
\* is in harness.nodes with that connector_id, each once, in the order of
\* harness.wires; a wire whose nodes do not resolve is not returned.
C18_WiresOnConnector ==
    op = "get_wires_for_connector" =>
        LET on == IndicesOn(arg[1])
        IN  /\ Len(result.ret) = Cardinality(on)
            /\ {result.ret[k] : k \in 1..Len(result.ret)}
                   = {wires[i] : i \in on}
            /\ \A a, b \in 1..Len(result.ret) :
                   a < b =>
                       \E i, j \in on :
                           i < j /\ wires[i] = result.ret[a]
                                 /\ wires[j] = result.ret[b]

C18_Witness ==
    /\ op = "get_wires_for_connector"
    /\ arg = <<"c1">>
    /\ Get(nodes, "n2").connector_id = "c1"
    /\ wires[1].from_node_id = "n2"
    /\ wires[1].to_node_id = "n2"
    /\ wires[2].from_node_id = "n1"
    /\ wires[2].to_node_id = "nX"
    /\ result.ret = wires


(***************************************************************************)
(* SpecFast: the fastener BOM on harnesses with MaxFasteners fasteners at   *)
(* most.  A fastener is any value of the dataclass Fastener: its branch_id  *)
(* and node_id both default to None, and nothing in the code sets or checks *)
(* them, so a fastener may name a branch, a node, both or neither.          *)
(***************************************************************************)
MaxFasteners == 3

\* <<branch_id, node_id>>
Attachments == {<<"b1", None>>, <<None, "n1">>, <<None, None>>}

FastenerKinds ==
    {[size |-> size, quantity |-> quantity, at |-> at] :
        size \in {"M6", None}, quantity \in {2, 3}, at \in Attachments}
    \cup {[size |-> "M6", quantity |-> 2, at |-> <<"b1", "n1">>]}

FastenerSeqs(n) ==
    {[i \in 1..n |->
        Fastener("f" \o ToString(i), FastenerType("ft1", "Clip"), "PN1",
                 c[i].quantity, c[i].size, NoFloat, c[i].at[1], c[i].at[2])] :
     c \in [1..n -> FastenerKinds]}

InitFast ==
    /\ connectors = << >>
    /\ wires = << >>
    /\ branches = <<HarnessBranch("b1", None, ExamplePath, <<"n1">>)>>
    /\ protections = << >>
    /\ nodes = <<Node("n1", "N1", Enum("NodeType", "SPLICE"), None, <<0, 0>>)>>
    /\ \E n \in 0..MaxFasteners : fasteners \in FastenerSeqs(n)
    /\ op = "init"
    /\ arg = << >>
    /\ result = NoResult
    /\ db = EmptyDb
    /\ editor = NoEditor

NextFast == GenerateFastenerBom

SpecFast == InitFast /\ [][NextFast]_vars

\* the indices of the fasteners with the key, in insertion order
RECURSIVE WithKey(_, _)
WithKey(key, n) ==
    IF n = 0 THEN << >>
    ELSE IF FastenerKey(fasteners[n]) = key
    THEN Append(WithKey(key, n - 1), n)
    ELSE WithKey(key, n - 1)

RECURSIVE SumQuantity(_, _)
SumQuantity(idx, n) ==
    IF n = 0 THEN 0 ELSE SumQuantity(idx, n - 1) + fasteners[idx[n]].quantity

\* is the string the location of the fastener: "Branch {id}" or "Node {id}"
IsLocationOf(location, fa) ==
    \/ fa.branch_id # None /\ location = <<"Branch", fa.branch_id>>
    \/ fa.node_id # None /\ location = <<"Node", fa.node_id>>

\* the entries of the last fastener BOM agree with the fasteners of each key
FastenerBomGroups ==
    /\ Keys(result.ret) = {FastenerKey(fasteners[i]) : i \in 1..Len(fasteners)}
    /\ \A e \in 1..Len(result.ret) :
           LET entry == result.ret[e]
               idx == WithKey(entry.id, Len(fasteners))
           IN  /\ entry.quantity = SumQuantity(idx, Len(idx))
               /\ Len(entry.locations) = Len(idx)
               /\ \A k \in 1..Len(idx) :
                      IsLocationOf(entry.locations[k], fasteners[idx[k]])

\* C16: generate_fastener_bom has one entry per key "{part_number}_{size or
\* empty}"; its quantity is the sum of the quantities of the fasteners with
\* the key and its locations hold one string per fastener with the key,
\* "Branch {id}" or "Node {id}", in insertion order.
C16_FastenerGroups ==
    op = "generate_fastener_bom" => FastenerBomGroups

\* C16, what holds instead: the same, on the harnesses where every fastener
\* names a branch or a node.
C16_AttachedFastenerGroups ==
    (op = "generate_fastener_bom"
     /\ \A i \in 1..Len(fasteners) :
            fasteners[i].branch_id # None \/ fasteners[i].node_id # None)
        => FastenerBomGroups


(***************************************************************************)
(* SpecBom: generate_bom on harnesses with MaxBomWires wires at most, of    *)
(* three type-and-colour kinds and any cached length, two branches, and     *)
(* none, one or two protections, the first of them on both branches.        *)
(***************************************************************************)
MaxBomWires == 3

\* <<type, color>>
BomWireKinds ==
    {<<"FLRY_B_0_35", "BK">>, <<"FLRY_B_0_35", "RD">>, <<"FLRY_B_0_5", "BK">>}

\* None, and what calculate_branch_wire_lengths stores for 7.0 and for 100.0
BomLengths ==
    {NoFloat, FMul(FFromInt(7), ServiceLoopFactor),
     FMul(FFromInt(100), ServiceLoopFactor)}

BomWireSeqs(n) ==
    {[i \in 1..n |->
        Wire("w" \o ToString(i), Enum("WireType", c[i][1][1]), c[i][1][2],
             "n1", "n2", None, None, c[i][2])] :
     c \in [1..n -> BomWireKinds \X BomLengths]}

BomProtections ==
    {<< >>,
     <<TapeProtection>>,
     <<TapeProtection,
       BranchProtection("p2", Enum("ProtectionType", "SPIRAL_WRAP"), "SW-1")>>}

InitBom ==
    /\ connectors = FixedConnectors
    /\ nodes = FixedNodes
    /\ fasteners = << >>
    /\ \E n \in 0..MaxBomWires : wires \in BomWireSeqs(n)
    /\ protections \in BomProtections
    /\ branches =
           <<HarnessBranch("b1", IF protections = << >> THEN None ELSE "p1",
                           ExamplePath, <<"n1", "n2">>),
             HarnessBranch("b2", IF protections = << >> THEN None ELSE "p1",
                           HundredPath, <<"n1", "n2">>)>>
    /\ op = "init"
    /\ arg = << >>
    /\ result = NoResult
    /\ db = EmptyDb
    /\ editor = NoEditor

NextBom ==
    \/ GenerateBom
    \/ CalculateBranchWireLengths

SpecBom == InitBom /\ [][NextBom]_vars

\* the number of wires among the first n with the type-and-colour key
RECURSIVE CountKey(_, _)
CountKey(key, n) ==
    IF n = 0 THEN 0
    ELSE CountKey(key, n - 1) + (IF WireTypeKey(wires[n]) = key THEN 1 ELSE 0)

\* the sum of the cached lengths of the wires among the first n with the key,
\* added in the order of the wires
RECURSIVE LengthKey(_, _)
LengthKey(key, n) ==
    IF n = 0 THEN FZero
    ELSE IF WireTypeKey(wires[n]) = key
    THEN FAdd(LengthKey(key, n - 1), LengthOrZero(wires[n]))
    ELSE LengthKey(key, n - 1)

\* the sum of the count, and of the length_mm, of the first n entries
RECURSIVE SumCount(_, _)
SumCount(wt, n) == IF n = 0 THEN 0 ELSE SumCount(wt, n - 1) + wt[n].count

RECURSIVE SumLength(_, _)
SumLength(wt, n) ==
    IF n = 0 THEN FZero ELSE FAdd(SumLength(wt, n - 1), wt[n].length_mm)

\* the wire entries of the BOM agree, key by key, with the wires
WireGroups(bom) ==
    /\ Keys(bom.wires) = {WireTypeKey(wires[i]) : i \in 1..Len(wires)}
    /\ \A e \in 1..Len(bom.wires) :
           /\ bom.wires[e].count = CountKey(bom.wires[e].id, Len(wires))
           /\ bom.wires[e].length_mm = LengthKey(bom.wires[e].id, Len(wires))
    /\ SumCount(bom.wires, Len(bom.wires)) = Len(wires)

\* C19: generate_bom groups the wires by "{type}_{color}": the count of a key
\* is the number of its wires and its length_mm the sum of their cached
\* lengths (None as 0); the counts add up to the number of wires and the
\* length_mm values to total_wire_length.
C19_WireGroups ==
    op = "generate_bom" =>
        /\ "ret" \in DOMAIN result
        /\ WireGroups(result.ret)
        /\ SumLength(result.ret.wires, Len(result.ret.wires))
               = result.ret.total_wire_length

\* C19, what holds instead: without protections in the harness the entries
\* agree with the wires, key by key, and the counts add up.
C19_WireGroupsWithoutProtections ==
    (op = "generate_bom" /\ protections = << >>) =>
        "ret" \in DOMAIN result /\ WireGroups(result.ret)

\* the sum of calculate_length over the first n branches with the protection
RECURSIVE ProtectedLength(_, _)
ProtectedLength(protection_id, n) ==
    IF n = 0 THEN FZero
    ELSE IF branches[n].protection_id = protection_id
    THEN FAdd(ProtectedLength(protection_id, n - 1),
              SumDist(branches[n].path_points, Len(branches[n].path_points)))
    ELSE ProtectedLength(protection_id, n - 1)

\* C20: generate_bom has an entry for every protection of the harness, keyed
\* by its id, whose quantity is the sum of the lengths of the branches with
\* that protection_id (0 when there is none), whatever the wires are.
C20_ProtectionQuantities ==
    op = "generate_bom" =>
        /\ "ret" \in DOMAIN result
        /\ KeySeq(result.ret.protections) = KeySeq(protections)
        /\ \A e \in 1..Len(result.ret.protections) :
               result.ret.protections[e].quantity =
                   ProtectedLength(result.ret.protections[e].id, Len(branches))


(***************************************************************************)
(* SpecAttach: fasteners put into harness.fasteners one at a time.  The     *)
(* class WiringHarness has no method that adds a fastener: the mapping is a *)
(* public field, and a fastener enters it by item assignment.  A fastener   *)
(* is any value of the dataclass: torque_nm is None or a float, branch_id   *)
(* and node_id are None or an id each.                                      *)
(***************************************************************************)
MaxAttached == 2

FastenerInputs ==
    {Fastener("f" \o ToString(i), FastenerType("ft1", "Clip"), "PN1", 1, size,
              torque_nm, branch_id, node_id) :
        i \in 1..MaxAttached, size \in {"M6", None},
        torque_nm \in {NoFloat, FFromInt(5), FFromInt(8)},
        branch_id \in {None, "b1"}, node_id \in {None, "n1"}}

InitAttach ==
    /\ connectors = << >>
    /\ wires = << >>
    /\ branches = <<HarnessBranch("b1", None, ExamplePath, <<"n1">>)>>
    /\ protections = << >>
    /\ nodes = <<Node("n1", "N1", Enum("NodeType", "SPLICE"), None, <<0, 0>>)>>
    /\ fasteners = << >>
    /\ op = "init"
    /\ arg = << >>
    /\ result = NoResult
    /\ db = EmptyDb
    /\ editor = NoEditor

\* harness.fasteners[fastener.id] = fastener
AddFastener ==
    \E e \in FastenerInputs :
        /\ e.id \in Keys(fasteners) \/ Len(fasteners) < MaxAttached
        /\ fasteners' = DictSet(fasteners, e)
        /\ op' = "add_fastener"
        /\ arg' = <<e>>
        /\ result' = Returned(None)
        /\ UNCHANGED <<connectors, wires, branches, protections, nodes, db, editor>>

NextAttach ==
    \/ AddFastener
    \/ GenerateFastenerBom

SpecAttach == InitAttach /\ [][NextAttach]_vars

\* the fastener BOM of the same fasteners inserted in the opposite order
ReversedFastenerBom == FastenerBom(Reverse(fasteners), 1, << >>)

\* C21: the torque of an entry of generate_fastener_bom comes from the type
\* definition: it is the same whichever fastener with the key was inserted
\* first, and whatever the torque_nm of the instances.
C21_TorqueFromType ==
    op = "generate_fastener_bom" =>
        \A e \in 1..Len(result.ret) :
            result.ret[e].torque
                = Get(ReversedFastenerBom, result.ret[e].id).torque

\* C21, what holds instead: the torque of an entry is the torque_nm of the
\* first inserted fastener with the key.
C21_TorqueOfFirstInstance ==
    op = "generate_fastener_bom" =>
        \A e \in 1..Len(result.ret) :
            LET idx == WithKey(result.ret[e].id, Len(fasteners))
            IN  result.ret[e].torque = fasteners[idx[1]].torque_nm

\* C22: every fastener of the harness is attached to exactly one of a branch
\* and a node: branch_id and node_id are never both set and never both None.
C22_AttachedToExactlyOne ==
    \A i \in 1..Len(fasteners) :
        (fasteners[i].branch_id # None) # (fasteners[i].node_id # None)


(***************************************************************************)
(* SpecLoad, the order of the loaded path points.                           *)
(***************************************************************************)
\* the rows of a path in increasing order of sequence_number, which the
\* primary key (branch, sequence_number) keeps distinct within a branch
RECURSIVE BySequenceNumber(_)
BySequenceNumber(rows) ==
    IF rows = << >> THEN << >>
    ELSE LET k == CHOOSE i \in 1..Len(rows) :
                      \A j \in 1..Len(rows) :
                          rows[i].sequence_number <= rows[j].sequence_number
         IN  <<rows[k]>>
             \o BySequenceNumber(SubSeq(rows, 1, k - 1)
                                 \o SubSeq(rows, k + 1, Len(rows)))

\* the points of the path rows of a branch, by sequence_number
StoredPath(database, branch_id) ==
    LET rows == BySequenceNumber(SelectSeq(database.branch_paths,
                                           LAMBDA r : r.branch = branch_id))
    IN  [i \in 1..Len(rows) |-> <<rows[i].position_x, rows[i].position_y>>]

\* C23: in the harness load_harness returns, the path_points of every branch
\* are the stored points in increasing order of sequence_number, whatever
\* their x coordinates.
C23_PathBySequenceNumber ==
    (op = "load_harness" /\ "ret" \in DOMAIN result) =>
        \A i \in 1..Len(branches) :
            branches[i].path_points = StoredPath(db, branches[i].id)

\* C23, what holds instead: the path_points of a loaded branch are in
\* non-decreasing order of x.
C23_PathByX ==
    (op = "load_harness" /\ "ret" \in DOMAIN result) =>
        \A i \in 1..Len(branches) :
            \A k \in 1..(Len(branches[i].path_points) - 1) :
                branches[i].path_points[k][1]
                    <= branches[i].path_points[k + 1][1]


(***************************************************************************)
(* SpecFrame: the five read-only operations and the length engine, in any   *)
(* order, on the harnesses of SpecCalc.                                     *)
(***************************************************************************)
NextFrame ==
    \/ CalculateBranchWireLengths
    \/ GenerateBom
    \/ GeneratePinoutReport
    \/ GenerateFastenerBom
    \/ GetConnectorPins
    \/ GetWiresForConnector

SpecFrame == InitCalc /\ [][NextFrame]_vars

ReadOnlyOps ==
    {"generate_bom", "generate_pinout_report", "generate_fastener_bom",
     "get_connector_pins", "get_wires_for_connector"}

\* the wire but for its cached length
WithoutLength(w) == [w EXCEPT !.calculated_length_mm = NoFloat]

\* C24: the reports and the two queries leave every field of the harness as
\* it was; calculate_branch_wire_lengths changes nothing but the
\* calculated_length_mm of the wires: the same wires in the same order, with
\* their other fields, and the same connectors, pins, nodes, branches,
\* protections and fasteners.
C24_FrameEffects ==
    [][/\ op' \in ReadOnlyOps => UNCHANGED harnessVars
       /\ op' = "calculate_branch_wire_lengths" =>
              /\ UNCHANGED <<connectors, branches, protections, nodes,
                             fasteners>>
              /\ Len(wires') = Len(wires)
              /\ \A i \in 1..Len(wires) :
                     WithoutLength(wires'[i]) = WithoutLength(wires[i])]_vars

\* the length engine has written 7.7 over a cached 5.0 or None, and a report
\* has run after it on the harness it left
C24_Witness ==
    /\ op \in ReadOnlyOps
    /\ Len(wires) >= 2
    /\ wires[1].calculated_length_mm = FMul(FFromInt(7), ServiceLoopFactor)
    /\ wires[2].calculated_length_mm = FZero


(***************************************************************************)
(* SpecEdit: the diagram editor (editor.py).  The window holds the two      *)
(* command stacks, the scene holds the mode, the pending start_item and the *)
(* items added to it, in the order they were added.  Every item ever        *)
(* constructed is kept in items, and is named by its place there: an item   *)
(* taken out of the scene lives on in the command that made it and in the   *)
(* lists that mention it.  A mouse event carries the item itemAt() finds    *)
(* under the pointer: any item of the scene, or none.                       *)
(*                                                                          *)
(* Line 28 annotates a parameter with BranchSegment, a name that            *)
(* harness_models does not define: where annotations are evaluated when the *)
(* function is defined the import of editor.py raises NameError and there   *)
(* is no editor; where they are evaluated lazily the window opens.          *)
(***************************************************************************)
MaxItems == 4

\* start_item = None; itemAt() finding nothing
NoItem == 0

Modes == {"select", "add_symbol", "add_node", "add_wire"}

\* SymbolItem(x, y, name): connected_wires = []
SymbolItem(name) ==
    [kind |-> "SymbolItem", name |-> name, start_item |-> NoItem,
     end_item |-> NoItem, connected_wires |-> << >>]

\* NodeItem(x, y): the constructor sets no connected_wires
NodeItem(name) ==
    [kind |-> "NodeItem", name |-> name, start_item |-> NoItem,
     end_item |-> NoItem, connected_wires |-> << >>]

\* WireItem(start_item, end_item)
WireItem(name, start_item, end_item) ==
    [kind |-> "WireItem", name |-> name, start_item |-> start_item,
     end_item |-> end_item, connected_wires |-> << >>]

\* the editor after DiagramEditor()
NewEditor ==
    [mode |-> "select", start_item |-> NoItem, symbol_counter |-> 1,
     wire_counter |-> 1, node_counter |-> 1, items |-> << >>,
     scene |-> << >>, undo_stack |-> << >>, redo_stack |-> << >>]

InitEdit ==
    /\ connectors = << >>
    /\ wires = << >>
    /\ branches = << >>
    /\ protections = << >>
    /\ nodes = << >>
    /\ fasteners = << >>
    /\ op = "init"
    /\ arg = << >>
    /\ result = NoResult
    /\ db = EmptyDb
    /\ editor \in {NoEditor, NewEditor}

Running == editor # NoEditor

\* QGraphicsScene.removeItem
RemoveItem(scene, item) == SelectSeq(scene, LAMBDA i : i # item)

\* an Add...Command for the item: its undo removes the item from the scene
\* and its redo adds it
AddCommand(item) == [item |-> item]

\* DiagramEditor.push_command of the add-command of a new item
push_command(ed, item) ==
    [ed EXCEPT !.scene = Append(@, item),
               !.undo_stack = Append(@, AddCommand(item)),
               !.redo_stack = << >>]

\* a set_mode that keeps the pending start_item
set_mode_Keep(ed, mode) == [ed EXCEPT !.mode = mode]

\* DiagramScene.set_mode
set_mode(ed, mode) == [ed EXCEPT !.mode = mode, !.start_item = NoItem]

\* a toolbar action: Select, Add Connector, Add Node, Add Wire
SetMode ==
    /\ Running
    /\ \E mode \in Modes :
           /\ editor' = set_mode(editor, mode)
           /\ arg' = <<mode>>
    /\ op' = "set_mode"
    /\ result' = Returned(None)
    /\ UNCHANGED <<harnessVars, db>>

\* the items itemAt() can return
UnderPointer == {NoItem} \cup {editor.scene[i] : i \in 1..Len(editor.scene)}

IsSymbol(item) == item # NoItem /\ editor.items[item].kind = "SymbolItem"

\* DiagramScene.mousePressEvent
MousePressEvent ==
    /\ Running
    /\ \E item \in UnderPointer :
         /\ arg' = <<item>>
         /\ IF editor.mode = "add_symbol"
            THEN /\ Len(editor.items) < MaxItems
                 /\ LET symbol ==
                            SymbolItem("C" \o ToString(editor.symbol_counter))
                        made == [editor EXCEPT
                                    !.symbol_counter = @ + 1,
                                    !.items = Append(@, symbol)]
                    IN  editor' = push_command(made, Len(made.items))
            ELSE IF editor.mode = "add_node"
            THEN /\ Len(editor.items) < MaxItems
                 /\ LET node ==
                            NodeItem("Node" \o ToString(editor.node_counter))
                        made == [editor EXCEPT
                                    !.symbol_counter = @ + 1,
                                    !.node_counter = @ + 1,
                                    !.items = Append(@, node)]
                    IN  editor' = push_command(made, Len(made.items))
            ELSE IF editor.mode = "add_wire"
            THEN editor' = [editor EXCEPT
                               !.start_item =
                                   IF IsSymbol(item) THEN item ELSE NoItem]
            ELSE editor' = editor
    /\ op' = "mousePressEvent"
    /\ result' = Returned(None)
    /\ UNCHANGED <<harnessVars, db>>

\* DiagramScene.mouseReleaseEvent
MouseReleaseEvent ==
    /\ Running
    /\ \E item \in UnderPointer :
         /\ arg' = <<item>>
         /\ IF editor.mode = "add_wire" /\ editor.start_item # NoItem
            THEN IF IsSymbol(item) /\ item # editor.start_item
                 THEN /\ Len(editor.items) < MaxItems
                      /\ LET wire ==
                                 WireItem("Wire" \o ToString(editor.wire_counter),
                                          editor.start_item, item)
                             w == Len(editor.items) + 1
                             made == [editor EXCEPT
                                 !.wire_counter = @ + 1,
                                 !.items = Append(
                                     [@ EXCEPT
                                        ![editor.start_item].connected_wires =
                                            Append(@, w),
                                        ![item].connected_wires = Append(@, w)],
                                     wire),
                                 !.start_item = NoItem]
                         IN  editor' = push_command(made, w)
                 ELSE editor' = [editor EXCEPT !.start_item = NoItem]
            ELSE editor' = editor
    /\ op' = "mouseReleaseEvent"
    /\ result' = Returned(None)
    /\ UNCHANGED <<harnessVars, db>>

\* an undo that leaves the item of the command in the scene
undo_Keep(ed) ==
    IF ed.undo_stack # << >>
    THEN LET cmd == ed.undo_stack[Len(ed.undo_stack)]
         IN  [ed EXCEPT !.undo_stack = SubSeq(@, 1, Len(@) - 1),
                        !.redo_stack = Append(@, cmd)]
    ELSE ed

\* DiagramEditor.undo: pop, cmd.undo(), which removes the item from the scene
undo(ed) ==
    IF ed.undo_stack # << >>
    THEN LET cmd == ed.undo_stack[Len(ed.undo_stack)]
         IN  [ed EXCEPT !.undo_stack = SubSeq(@, 1, Len(@) - 1),
                        !.scene = RemoveItem(@, cmd.item),
                        !.redo_stack = Append(@, cmd)]
    ELSE ed

\* DiagramEditor.redo: pop, cmd.redo(), which adds the item to the scene
redo(ed) ==
    IF ed.redo_stack # << >>
    THEN LET cmd == ed.redo_stack[Len(ed.redo_stack)]
         IN  [ed EXCEPT !.redo_stack = SubSeq(@, 1, Len(@) - 1),
                        !.scene = Append(@, cmd.item),
                        !.undo_stack = Append(@, cmd)]
    ELSE ed

\* Ctrl+Z
Undo ==
    /\ Running
    /\ editor' = undo(editor)
    /\ op' = "undo"
    /\ arg' = << >>
    /\ result' = Returned(None)
    /\ UNCHANGED <<harnessVars, db>>

\* Ctrl+Y
Redo ==
    /\ Running
    /\ editor' = redo(editor)
    /\ op' = "redo"
    /\ arg' = << >>
    /\ result' = Returned(None)
    /\ UNCHANGED <<harnessVars, db>>

NextEdit ==
    \/ SetMode
    \/ MousePressEvent
    \/ MouseReleaseEvent
    \/ Undo
    \/ Redo

SpecEdit == InitEdit /\ [][NextEdit]_vars

InScene(item) == \E i \in 1..Len(editor.scene) : editor.scene[i] = item

\* the items an item refers to: the wires of a symbol, the ends of a wire
RefersTo(item) ==
    {editor.items[item].connected_wires[k] :
        k \in 1..Len(editor.items[item].connected_wires)}
    \cup ({editor.items[item].start_item, editor.items[item].end_item}
          \ {NoItem})

\* C25: no item of the scene refers to an item outside it: after the undo of
\* an AddWireCommand the wire is in the connected_wires of neither of its end
\* symbols, and so after any sequence of adds, undos and redos.
C25_NoDanglingItem ==
    Running =>
        \A item \in 1..Len(editor.items) :
            InScene(item) => \A other \in RefersTo(item) : InScene(other)


\* the items of the commands of a stack
StackItems(stack) == {stack[i].item : i \in 1..Len(stack)}

\* no command is in both stacks, and an item is in the scene exactly when
\* its add-command is in the undo stack
StacksAndScene ==
    /\ StackItems(editor.undo_stack) \cap StackItems(editor.redo_stack) = {}
    /\ \A item \in 1..Len(editor.items) :
           InScene(item) <=> item \in StackItems(editor.undo_stack)

\* undo on an empty undo stack and redo on an empty redo stack change nothing
EmptyStackNoOp ==
    /\ editor.undo_stack = << >> => undo(editor) = editor
    /\ editor.redo_stack = << >> => redo(editor) = editor

\* an undo and then a redo bring back both stacks and the scene
UndoRedoRestores ==
    LET after == redo(undo(editor))
    IN  /\ after.undo_stack = editor.undo_stack
        /\ after.redo_stack = editor.redo_stack
        /\ after.scene = editor.scene

\* a step that pushes a command, which every step that makes an item does,
\* leaves the redo stack empty; Ctrl+Z and Ctrl+Y on an empty stack leave the
\* editor as it was
StackSteps ==
    /\ Len(editor'.items) > Len(editor.items) =>
           /\ editor'.redo_stack = << >>
           /\ editor'.undo_stack
                  = Append(editor.undo_stack, AddCommand(Len(editor'.items)))
    /\ (op' = "undo" /\ editor.undo_stack = << >>) => editor' = editor
    /\ (op' = "redo" /\ editor.redo_stack = << >>) => editor' = editor

\* C26 as stated: after any sequence of push_command, undo and redo no command
\* is in both stacks, an added item is in the scene exactly when its
\* add-command is in the undo stack, push_command leaves the redo stack
\* empty, undo and redo on an empty stack change nothing, and an undo
\* immediately followed by a redo restores both stacks and the scene.
C26_StackDisciplineAsStated ==
    /\ [](Running => StacksAndScene /\ EmptyStackNoOp /\ UndoRedoRestores)
    /\ [][Running => StackSteps]_vars

\* C26, as it holds: the same, where the undo followed by a redo restores
\* both stacks and the scene when the undo stack was not empty.
C26_StackDiscipline ==
    /\ [](Running =>
            /\ StacksAndScene
            /\ EmptyStackNoOp
            /\ editor.undo_stack # << >> => UndoRedoRestores)
    /\ [][Running => StackSteps]_vars

\* three items added, two of them undone and one redone
C26_Witness ==
    /\ Running
    /\ op = "redo"
    /\ Len(editor.undo_stack) = 2
    /\ Len(editor.redo_stack) = 1
    /\ Len(editor.scene) = 2


\* a pending start_item is a symbol pressed in add_wire mode, and every wire
\* runs between two different symbols
PendingAndWires ==
    /\ editor.start_item # NoItem =>
           editor.mode = "add_wire" /\ IsSymbol(editor.start_item)
    /\ \A item \in 1..Len(editor.items) :
           editor.items[item].kind = "WireItem" =>
               /\ IsSymbol(editor.items[item].start_item)
               /\ IsSymbol(editor.items[item].end_item)
               /\ editor.items[item].start_item # editor.items[item].end_item

\* has the step made a wire?
WireMade ==
    /\ Len(editor'.items) > Len(editor.items)
    /\ editor'.items[Len(editor'.items)].kind = "WireItem"

SceneSteps ==
    /\ WireMade =>
           /\ op' = "mouseReleaseEvent"
           /\ editor.mode = "add_wire"
           /\ editor.start_item # NoItem
           /\ IsSymbol(arg'[1])
           /\ arg'[1] # editor.start_item
           /\ editor'.items[Len(editor'.items)].start_item = editor.start_item
           /\ editor'.items[Len(editor'.items)].end_item = arg'[1]
    /\ (editor'.start_item # NoItem /\ editor'.start_item # editor.start_item) =>
           /\ op' = "mousePressEvent"
           /\ editor.mode = "add_wire"
           /\ arg'[1] = editor'.start_item
    /\ op' = "set_mode" => editor'.start_item = NoItem
    /\ (op' = "mouseReleaseEvent" /\ editor.mode = "add_wire") =>
           editor'.start_item = NoItem

\* C27: a wire is made only by a release in add_wire mode on a symbol other
\* than the pending start_item, which only a press on a symbol in add_wire
\* mode sets; set_mode clears the start_item and so does every release in
\* add_wire mode, so that a start_item never outlives a change of mode and no
\* wire runs from a symbol to itself.
C27_WireByPressAndRelease ==
    /\ [](Running => PendingAndWires)
    /\ [][Running => SceneSteps]_vars

\* a wire has just been made between two symbols
C27_Witness ==
    /\ Running
    /\ op = "mouseReleaseEvent"
    /\ editor.mode = "add_wire"
    /\ editor.items # << >>
    /\ editor.items[Len(editor.items)].kind = "WireItem"
    /\ InScene(Len(editor.items))
    /\ editor.start_item = NoItem


(***************************************************************************)
(* SpecLoadAll: load_harness and the length engine over the databases in    *)
(* which harness H1 has two branches, each with one of the paths, none, one *)
(* or two nodes and MaxDbWires wires at most; the node n2 may belong to the *)
(* harness H2.                                                              *)
(***************************************************************************)
TwoBranchDatabases ==
    {[harnesses |-> {"H1", "H2"}, connectors |-> << >>, pins |-> << >>,
      nodes |-> ns, wires |-> ws, branches |-> bs, protections |-> << >>,
      branch_paths |-> bp] :
        ns \in NodeTables,
        ws \in UNION {WireTables(n) : n \in 0..MaxDbWires},
        bs \in BranchTables(2, << >>),
        bp \in UNION {PathTablesFor(b, 1) : b \in BranchTables(2, << >>)}}

InitLoadAll ==
    /\ db \in {database \in TwoBranchDatabases : SchemaHolds(database)}
    /\ editor = NoEditor
    /\ connectors = << >>
    /\ wires = << >>
    /\ branches = << >>
    /\ protections = << >>
    /\ nodes = << >>
    /\ fasteners = << >>
    /\ op = "init"
    /\ arg = << >>
    /\ result = NoResult

NextLoadAll ==
    \/ LoadHarness
    \/ (HarnessLoaded /\ CalculateBranchWireLengths)

SpecLoadAll == InitLoadAll /\ [][NextLoadAll]_vars

\* the sum of the lengths of the first n branches, in their order
RECURSIVE AllBranchesSum(_)
AllBranchesSum(n) ==
    IF n = 0 THEN FZero
    ELSE FAdd(AllBranchesSum(n - 1),
              SumDist(branches[n].path_points, Len(branches[n].path_points)))

\* every branch of the loaded harness has the ids of all node rows of the
\* harness as its members
SameMembers ==
    \A i \in 1..Len(branches) :
        branches[i].nodes = KeySeq(RowsOf(db.nodes, "H1"))

\* C28: in the harness load_harness returns, every branch has the same member
\* list, the ids of all nodes of the harness; every wire of it is attributed
\* to every branch, and calculate_branch_wire_lengths assigns each wire 1.1
\* times the sum of the lengths of all branches.
C28_EveryWireOnEveryBranch ==
    /\ (op = "load_harness" /\ "ret" \in DOMAIN result) =>
           /\ SameMembers
           /\ \A i \in 1..Len(branches) :
                  \A k \in 1..Len(wires) : Applicable(branches[i], wires[k])
    /\ op = "calculate_branch_wire_lengths" =>
           \A k \in 1..Len(wires) :
               wires[k].calculated_length_mm
                   = FMul(AllBranchesSum(Len(branches)), ServiceLoopFactor)

\* C28, what holds instead: the member lists are the same, and a wire whose
\* two end nodes are node rows of the harness is attributed to every branch
\* and assigned the float product of the sum of all branch lengths and 1.1; a
\* wire with an end node of another harness is assigned 0.0.
C28_WiresOfOwnNodes ==
    /\ (op = "load_harness" /\ "ret" \in DOMAIN result) => SameMembers
    /\ op = "calculate_branch_wire_lengths" =>
           \A k \in 1..Len(wires) :
               wires[k].calculated_length_mm =
                   IF {wires[k].from_node_id, wires[k].to_node_id}
                          \subseteq Keys(RowsOf(db.nodes, "H1"))
                   THEN FMul(AllBranchesSum(Len(branches)), ServiceLoopFactor)
                   ELSE FZero

=============================================================================
